---- MODULE Spec2Model ----
(***************************************************************************)
(* State-machine model of the SIQ identifier subsystem of suou             *)
(* (src/src/suou/iding.py): SiqType, make_domain_hash and SiqGen.          *)
(*                                                                         *)
(* Python integers are unbounded; identifiers are 112 bits wide.  Every    *)
(* integer that may exceed 31 bits is kept as a "big": its base-256        *)
(* digits, least significant first, without high-order zero digits (so 0   *)
(* is the empty sequence and equal numbers are equal sequences).           *)
(***************************************************************************)
EXTENDS Integers, Sequences, FiniteSets, TLC

VARIABLES
    clock,      \* the wall clock, in ticks of 1/65536 s (time.time() * 65536)
    regressed,  \* history: the wall clock has moved backwards at least once
    skews,      \* history: number of backward moves of the wall clock
    pid,        \* os.getpid() of the process
    gen,        \* instance -> SiqGen fields
    iter,       \* instance -> the generate() iterator of that instance
    emitted,    \* history: the first MaxEmit yields, in order
    yields,     \* history: number of identifiers yielded
    last,       \* history: the most recent yield of a live instance, with its context
    maxTs,      \* history: instance -> tag -> largest timestamp yielded (-1: none)
    firstOf,    \* history: instance -> tag -> first yield since construction / freeze, and count
    restarts,   \* history: number of re-constructions
    resumed,    \* history: instance -> timestamp field of the last_siq it was built with
    hcalls,     \* history: the make_domain_hash calls made, with their results
    cache,      \* the SiqCache of instance 1 and the history of its generate() calls
    mig,        \* the fields of the migrator
    pcalls,     \* history: the calls of the codecs, bit helpers and migrators, with their results
    tdict,      \* the TimedDict: its items, its _expires and the history of its calls
    sfgen,      \* the SnowflakeGen, its generate() iterator and the history of its yields
    thr         \* thread -> the generate() iterator it runs on instance 1, and the locks made

clockVars == <<clock, regressed, skews>>
histVars == <<emitted, yields, last, maxTs, firstOf>>
genVars == <<clock, regressed, skews, pid, gen, iter, emitted, yields, last, maxTs, firstOf,
             restarts, resumed>>
auxVars == <<tdict, sfgen, thr>>
extVars == <<cache, mig, pcalls, tdict, sfgen, thr>>
vars == <<clock, regressed, skews, pid, gen, iter, emitted, yields, last, maxTs, firstOf,
          restarts, resumed, hcalls, cache, mig, pcalls, tdict, sfgen, thr>>

-----------------------------------------------------------------------------
(* Bounds of the model *)

MaxClock == 2
MaxEmit == 2
MaxN == 2
MaxRestart == 1
MaxSkew == 1
MaxHashCalls == 2
MaxFrozen == 16

-----------------------------------------------------------------------------
(* Python integer operations *)

Min(a, b) == IF a < b THEN a ELSE b
Max(a, b) == IF a < b THEN b ELSE a

\* a << k and a >> k on non-negative integers
Shl(a, k) == a * (2 ^ k)
Shr(a, k) == a \div (2 ^ k)

\* The operations on integers are functions: a function is applied to the
\* values of its arguments, as a Python operator is.

\* a | b on non-negative integers
BitOr[a \in Nat, b \in Nat] ==
    IF a = 0 THEN b
    ELSE IF b = 0 THEN a
    ELSE (IF a % 2 = 1 \/ b % 2 = 1 THEN 1 ELSE 0) + 2 * BitOr[a \div 2, b \div 2]

\* drop the high-order zero digits
Trim[b \in Seq(Nat)] ==
    IF b = <<>> THEN <<>>
    ELSE IF b[Len(b)] = 0 THEN Trim[SubSeq(b, 1, Len(b) - 1)]
    ELSE b

\* a non-negative machine-size integer as a big, and back
ToBig[n \in Nat] == IF n = 0 THEN <<>> ELSE <<n % 256>> \o ToBig[n \div 256]

FromBig[b \in Seq(Nat)] == IF b = <<>> THEN 0 ELSE b[1] + 256 * FromBig[Tail(b)]

Digit(b, i) == IF i <= Len(b) THEN b[i] ELSE 0

\* b << 8k, b >> 8k, b % 2^(8k) and a | b on bigs
BigShl8[b \in Seq(Nat), k \in Nat] == IF b = <<>> THEN <<>> ELSE [i \in 1..k |-> 0] \o b
BigShr8[b \in Seq(Nat), k \in Nat] == IF Len(b) <= k THEN <<>> ELSE SubSeq(b, k + 1, Len(b))
BigMod8[b \in Seq(Nat), k \in Nat] == Trim[SubSeq(b, 1, Min(k, Len(b)))]
BigOr[a \in Seq(Nat), b \in Seq(Nat)] ==
    Trim[[i \in 1..Max(Len(a), Len(b)) |-> BitOr[Digit(a, i), Digit(b, i)]]]

\* a + b on bigs
BigAddC[a \in Seq(Nat), b \in Seq(Nat), c \in Nat] ==
    IF a = <<>> /\ b = <<>> THEN (IF c = 0 THEN <<>> ELSE <<c>>)
    ELSE LET s == Digit(a, 1) + Digit(b, 1) + c
         IN  <<s % 256>> \o BigAddC[BigShr8[a, 1], BigShr8[b, 1], s \div 256]
BigAdd[a \in Seq(Nat), b \in Seq(Nat)] == Trim[BigAddC[a, b, 0]]

\* an optional argument: <<>> is None, <<v>> is the value v
None == <<>>
Some(v) == <<v>>
Truthy(opt) == opt # <<>> /\ opt[1] # 0

-----------------------------------------------------------------------------
(* SiqType *)

SiqType ==
    [CONTENT |-> 15, MULTI |-> 11, MANYTOMANY |-> 13, TERNARY |-> 9,
     TAG |-> 34, CHANNEL |-> 42, THREAD |-> 22, MESSAGE |-> 30,
     USER |-> 32, GROUP |-> 36, EVENT |-> 40, INVITE |-> 44,
     APPLICATION |-> 48, COLLECTION |-> 52, PREMIUM |-> 56]

n_bits_loop_len[val \in Nat, lsh \in Nat] ==
    IF val > 0 THEN n_bits_loop_len[Shr(val, 1), lsh + 1] ELSE lsh

n_bits_loop[val \in Nat, lsh \in Nat] ==
    IF val > 1 THEN n_bits_loop[Shr(val, 1), lsh + 1] ELSE lsh

n_bits_len(typ) == n_bits_loop_len[SiqType[typ], 0]

n_bits(typ) == n_bits_loop[SiqType[typ], 0]

prepend_value(typ, other) ==
    BitOr[Shl(other, n_bits(typ)), SiqType[typ]]

prepend(typ, other) ==
    BitOr[Shl(other, n_bits(typ)), SiqType[typ] % Shl(1, n_bits(typ))]

-----------------------------------------------------------------------------
(* make_domain_hash *)

\* hashlib.sha256(domain.encode('ascii')).digest()[-4:], for the domains of the model
Sha256Tail(domain) ==
    CASE domain = "example.com" -> <<134, 206, 25, 71>>
      [] domain = "yusur.moe"   -> <<36, 31, 49, 223>>
      [] domain = "localhost"   -> <<131, 29, 151, 99>>
      [] domain = "a"           -> <<175, 238, 72, 187>>
      [] domain = "d9580021.example" -> <<1, 255, 255, 255>>

\* int.from_bytes(b, 'big')
IntFromBytesBig(b) == Trim[[i \in 1..Len(b) |-> b[Len(b) + 1 - i]]]

make_domain_hash_low16(domain, local_id) ==
    IF domain = "" \/ domain = "0" THEN ToBig[0]
    ELSE LET h == IntFromBytesBig(Sha256Tail(domain))
         IN  IF Truthy(local_id)
             THEN BigOr[BigShl8[ToBig[local_id[1] % 256], 3], BigMod8[h, 2]]
             ELSE h

make_domain_hash_noguard(domain, local_id) ==
    LET h == IF domain = "" \/ domain = "0" THEN ToBig[0]
             ELSE IntFromBytesBig(Sha256Tail(domain))
    IN  IF Truthy(local_id)
        THEN BigOr[BigShl8[ToBig[local_id[1] % 256], 3], BigMod8[h, 3]]
        ELSE h

make_domain_hash(domain, local_id) ==
    IF domain = "" \/ domain = "0" THEN ToBig[0]
    ELSE LET h == IntFromBytesBig(Sha256Tail(domain))
         IN  IF Truthy(local_id)
             THEN BigOr[BigShl8[ToBig[local_id[1] % 256], 3], BigMod8[h, 3]]
             ELSE h

-----------------------------------------------------------------------------
(* SiqGen *)

Insts == DOMAIN gen

NoCounters == [t \in {} |-> 0]

\* counters[typ] = v
SetCounter(c, typ, v) == [t \in DOMAIN c \cup {typ} |-> IF t = typ THEN v ELSE c[t]]

\* counters.setdefault(typ, 0): the value read; the dictionary afterwards
GetDefault(c, typ) == IF typ \in DOMAIN c THEN c[typ] ELSE 0
SetDefault(c, typ) == SetCounter(c, typ, GetDefault(c, typ))

\* the number of counter values of a tag in the 16-bit region
CounterSpace(typ) == Shl(1, 16 - n_bits(typ))

\* SiqGen.cur_timestamp, c being what time.time() * 65536 reads
cur_timestamp(g, c) ==
    IF gen[g].test_cur_ts # None THEN gen[g].test_cur_ts[1] ELSE c

\* the wall clock is read and shows c: it went on to c, or was set back to c
\* (clock skew, NTP correction) since the reading before
ReadClock(c) ==
    /\ c \in 0..MaxClock
    /\ c >= clock \/ skews < MaxSkew
    /\ clock' = c
    /\ regressed' = (regressed \/ c < clock)
    /\ skews' = IF c < clock THEN skews + 1 ELSE skews

\* instance g reads its clock: the wall clock, unless a test froze it
ReadTime(g, c) ==
    IF gen[g].test_cur_ts # None THEN c = clock /\ UNCHANGED clockVars ELSE ReadClock(c)

SiqGenInit_pid(c, p, domain, last_siq, local_id, shard_id) ==
    [domain_hash |-> make_domain_hash(domain, local_id),
     test_cur_ts |-> None,
     last_gen_ts |-> Min(FromBig[BigShr8[last_siq, 7]], c),
     counters    |-> NoCounters,
     shard_id    |-> p % 256]

\* SiqGen.__init__: the fields of a new generator (its _test_cur_ts is None, so
\* cur_timestamp() is the wall clock)
SiqGenInit(c, p, domain, last_siq, local_id, shard_id) ==
    [domain_hash |-> make_domain_hash(domain, local_id),
     test_cur_ts |-> None,
     last_gen_ts |-> Min(FromBig[BigShr8[last_siq, 7]], c),
     counters    |-> NoCounters,
     shard_id    |-> (IF Truthy(shard_id) THEN shard_id[1] ELSE p) % 256]

MakeSiq_shard40(now, shard_id, domain_hash, idseq) ==
    BigOr[BigOr[BigOr[BigShl8[ToBig[now], 7],
                      BigShl8[ToBig[shard_id % 256], 5]],
                BigShl8[BigMod8[domain_hash, 4], 2]],
          ToBig[idseq % Shl(1, 16)]]

\* the identifier assembled in generate()
MakeSiq(now, shard_id, domain_hash, idseq) ==
    BigOr[BigOr[BigOr[BigShl8[ToBig[now], 7],
                      BigShl8[ToBig[shard_id % 256], 6]],
                BigShl8[BigMod8[domain_hash, 4], 2]],
          ToBig[idseq % Shl(1, 16)]]

\* fields of an identifier
SiqTs(siq) == FromBig[BigShr8[siq, 7]]
SiqShard(siq) == FromBig[BigMod8[BigShr8[siq, 6], 1]]
SiqDomain(siq) == BigMod8[BigShr8[siq, 2], 4]
SiqSeq(siq) == FromBig[BigMod8[siq, 2]]

NoIter == [pc |-> "none", typ |-> "", n |-> 0, now |-> 0, idseq |-> 0]
NoLast == [g |-> 0, siq |-> <<>>, typ |-> "", now |-> 0, wrapped |-> FALSE, prevMax |-> -1]
NoFirst == [siq |-> <<>>, k |-> 0]

Tags == DOMAIN SiqType

RECURSIVE SumN(_)
SumN(S) == IF S = {} THEN 0 ELSE LET g == CHOOSE x \in S : TRUE IN iter[g].n + SumN(S \ {g})

\* identifiers yielded so far plus those the live iterators still owe
Owed == yields + SumN(Insts)

\* no SiqCache and no migrator has been constructed
NoCall == [at |-> 0, refilled |-> FALSE, wasEmpty |-> FALSE, prevFillAt |-> -1, ret |-> <<>>]
NoCache == [pc |-> "none", size |-> 0, max_age |-> 0, typ |-> "", q |-> <<>>,
            calls |-> 0, fillAt |-> -1, batch |-> <<>>, served |-> 0, lastCall |-> NoCall,
            returned |-> <<>>]

\* the generator a SiqCache wraps
CacheGen == 1

\* list.extend() over the iterator of generate(): an identifier yielded to a
\* SiqCache that is refilling goes to the end of its _cache
Extend(g, siq) ==
    IF cache.pc = "fill" /\ g = CacheGen
    THEN [cache EXCEPT !.q = Append(@, siq), !.batch = Append(@, siq)]
    ELSE cache
NoMig == [kind |-> ""]

\* no TimedDict, no SnowflakeGen and no thread has been made
NoDict == [kind |-> ""]
NoSf == [kind |-> ""]
NoThr == [kind |-> ""]
NoAux == tdict = NoDict /\ sfgen = NoSf /\ thr = NoThr

\* the state after constructing the generators of G
InitSiqGen(G, Clocks, Pids, Domains, LocalIds, ShardIds, LastSiqs) ==
    /\ clock \in Clocks
    /\ regressed = FALSE
    /\ skews = 0
    /\ pid \in Pids
    /\ \E d \in Domains, l \in LocalIds, ls \in LastSiqs :
          /\ gen \in [G -> {SiqGenInit(clock, pid, d, ls, l, s) : s \in ShardIds}]
          /\ resumed = [g \in G |-> SiqTs(ls)]
    /\ iter = [g \in G |-> NoIter]
    /\ emitted = <<>>
    /\ yields = 0
    /\ last = NoLast
    /\ maxTs = [g \in G |-> [t \in Tags |-> -1]]
    /\ firstOf = [g \in G |-> [t \in Tags |-> NoFirst]]
    /\ restarts = 0
    /\ hcalls = <<>>

\* the generators of G constructed, and neither a SiqCache nor a migrator
InitGen(G, Clocks, Pids, Domains, LocalIds, ShardIds, LastSiqs) ==
    /\ InitSiqGen(G, Clocks, Pids, Domains, LocalIds, ShardIds, LastSiqs)
    /\ cache = NoCache
    /\ NoAux
    /\ mig = NoMig
    /\ pcalls = <<>>

\* the wall clock advances by one tick
Tick ==
    /\ clock < MaxClock
    /\ clock' = clock + 1
    /\ UNCHANGED <<regressed, skews, pid, gen, iter, histVars, restarts, resumed, hcalls, extVars>>

\* the wall clock is set back (clock skew, NTP correction)
ClockBack ==
    /\ \E c \in 0..(clock - 1) : ReadClock(c)
    /\ UNCHANGED <<pid, gen, iter, histVars, restarts, resumed, hcalls, extVars>>

\* a new SiqGen replaces instance g (process restart), resuming from last_siq;
\* the wall clock shows c
Reconstruct(g, c, domain, last_siq, local_id, shard_id) ==
    /\ restarts < MaxRestart
    /\ restarts' = restarts + 1
    /\ ReadClock(c)
    /\ gen' = [gen EXCEPT ![g] = SiqGenInit(c, pid, domain, last_siq, local_id, shard_id)]
    /\ iter' = [iter EXCEPT ![g] = NoIter]
    /\ resumed' = [resumed EXCEPT ![g] = SiqTs(last_siq)]
    /\ last' = IF last.g = g THEN NoLast ELSE last
    /\ maxTs' = [maxTs EXCEPT ![g] = [t \in Tags |-> -1]]
    /\ firstOf' = [firstOf EXCEPT ![g] = [t \in Tags |-> NoFirst]]
    /\ UNCHANGED <<pid, emitted, yields, hcalls, extVars>>

\* SiqGen.set_cur_timestamp: freeze the generator's clock at tick v
set_cur_timestamp(g, v) ==
    /\ iter[g].pc = "none"
    /\ gen' = [gen EXCEPT ![g].test_cur_ts = Some(v), ![g].last_gen_ts = v]
    /\ firstOf' = [firstOf EXCEPT ![g] = [t \in Tags |-> NoFirst]]
    /\ UNCHANGED <<clockVars, pid, iter, emitted, yields, last, maxTs, restarts, resumed, hcalls, extVars>>

generate_eager(g, typ, n) ==
    /\ iter[g].pc = "none"
    /\ iter' = [iter EXCEPT ![g] = [pc |-> "created", typ |-> typ, n |-> n, now |-> 0, idseq |-> 0]]
    /\ gen' = [gen EXCEPT ![g].counters = SetCounter(@, typ, 0)]
    /\ UNCHANGED <<clockVars, pid, histVars, restarts, resumed, hcalls, extVars>>

\* SiqGen.generate(typ, n): the iterator is created; nothing runs before the first next()
generate(g, typ, n) ==
    /\ iter[g].pc = "none"
    /\ iter' = [iter EXCEPT ![g] = [pc |-> "created", typ |-> typ, n |-> n, now |-> 0, idseq |-> 0]]
    /\ UNCHANGED <<clockVars, pid, gen, histVars, restarts, resumed, hcalls, extVars>>

\* time.sleep(d) raises ValueError for a negative d
SleepRaises(d) == d < 0

NewTick_ge(now, last_gen_ts) == now >= last_gen_ts

\* the test of generate() for a clock tick later than last_gen_ts
NewTick(now, last_gen_ts) == now > last_gen_ts

\* generate(), up to the loop: read the clock, sleep on a regression, reset the counter on a new tick
Start(g, c) ==
    /\ iter[g].pc = "created"
    /\ ReadTime(g, c)
    /\ LET now == cur_timestamp(g, c)
           lg  == gen[g].last_gen_ts
       IN  IF now < lg
           THEN /\ iter' = [iter EXCEPT ![g].now = now,
                                        ![g].pc = IF SleepRaises(lg - now) THEN "error" ELSE "sleep"]
                /\ gen' = gen
           ELSE IF NewTick(now, lg)
           THEN /\ iter' = [iter EXCEPT ![g].now = now, ![g].pc = "loop"]
                /\ gen' = [gen EXCEPT ![g].counters = SetCounter(@, iter[g].typ, 0)]
           ELSE /\ iter' = [iter EXCEPT ![g].now = now, ![g].pc = "loop"]
                /\ gen' = gen
    /\ UNCHANGED <<pid, histVars, restarts, resumed, hcalls, extVars>>

\* time.sleep() returns
SleepDone(g) ==
    /\ iter[g].pc = "sleep"
    /\ iter' = [iter EXCEPT ![g].pc = "loop"]
    /\ UNCHANGED <<clockVars, pid, gen, histVars, restarts, resumed, hcalls, extVars>>

\* the guarded section of generate(): assemble the identifier, count it, yield it
Yield(g, now, idseq, c, wrapped) ==
    LET typ == iter[g].typ
        siq == MakeSiq(now, gen[g].shard_id, gen[g].domain_hash, idseq)
        f   == firstOf[g][typ]
    IN  /\ gen' = [gen EXCEPT ![g].counters = SetCounter(c, typ, c[typ] + 1)]
        /\ iter' = [iter EXCEPT ![g].now = now, ![g].idseq = idseq, ![g].n = @ - 1, ![g].pc = "loop"]
        /\ emitted' = IF Len(emitted) < MaxEmit
                      THEN Append(emitted, [g |-> g, life |-> restarts, siq |-> siq, typ |-> typ, now |-> now])
                      ELSE emitted
        /\ yields' = yields + 1
        /\ last' = [g |-> g, siq |-> siq, typ |-> typ, now |-> now, wrapped |-> wrapped,
                    prevMax |-> maxTs[g][typ]]
        /\ maxTs' = [maxTs EXCEPT ![g][typ] = Max(@, SiqTs(siq))]
        /\ firstOf' = [firstOf EXCEPT ![g][typ] = IF f.k = 0 THEN [siq |-> siq, k |-> 1]
                                                   ELSE [f EXCEPT !.k = @ + 1]]
        /\ cache' = Extend(g, siq)

\* one pass of the loop of generate() without counter overflow: yields
\* one identifier; with overflow: goes waiting for the clock
Step(g) ==
    /\ iter[g].pc = "loop"
    /\ iter[g].n # 0
    /\ LET typ   == iter[g].typ
           c     == SetDefault(gen[g].counters, typ)
           idseq == prepend(typ, c[typ])
       IN  IF idseq >= Shl(1, 16)
           THEN /\ iter' = [iter EXCEPT ![g].idseq = idseq, ![g].pc = "spin"]
                /\ gen' = [gen EXCEPT ![g].counters = c]
                /\ UNCHANGED <<histVars, cache>>
           ELSE Yield(g, iter[g].now, idseq, c, FALSE)
    /\ UNCHANGED <<clockVars, pid, restarts, resumed, hcalls, mig, pcalls, auxVars>>

SpinOver_lt(now, last_gen_ts) == now < last_gen_ts

\* the wait of generate() after a counter overflow is over once the clock read passes last_gen_ts
SpinOver(now, last_gen_ts) == ~(now <= last_gen_ts)

\* one pass of the wait after a counter overflow: read the clock; stay (sleep one
\* tick) or reduce the counter and yield
Spin(g, c) ==
    /\ iter[g].pc = "spin"
    /\ ReadTime(g, c)
    /\ LET typ == iter[g].typ
           now == cur_timestamp(g, c)
           cs  == gen[g].counters
       IN  IF SpinOver(now, gen[g].last_gen_ts)
           THEN Yield(g, now, iter[g].idseq, SetCounter(cs, typ, cs[typ] % CounterSpace(typ)), TRUE)
           ELSE /\ iter' = [iter EXCEPT ![g].now = now]
                /\ UNCHANGED <<gen, histVars, cache>>
    /\ UNCHANGED <<pid, restarts, resumed, hcalls, mig, pcalls, auxVars>>

\* the loop of generate() ends: the iterator is exhausted
StopIteration(g) ==
    /\ iter[g].pc = "loop"
    /\ iter[g].n = 0
    /\ iter' = [iter EXCEPT ![g] = NoIter]
    /\ UNCHANGED <<clockVars, pid, gen, histVars, restarts, resumed, hcalls, extVars>>

\* SiqGen.generate_one and SiqGen.generate_list
generate_one(g, typ) == generate(g, typ, 1)
generate_list(g, typ, n) == generate(g, typ, n)

-----------------------------------------------------------------------------
(* One generator in a process whose wall clock may go on and may be set back
   between any two readings; the process may restart and resume from an
   identifier it yielded.  The wait after a counter overflow needs
   CounterSpace(typ) yields within one tick and is out of reach of MaxEmit:
   it is explored in SpecOvf. *)

ModelTags == {"CONTENT", "USER"}
ModelDomains == {"example.com"}
ModelShardIds == {None, Some(256)}
ModelPids == {300}

\* the identifiers a restarted process can resume from
Persisted == {ToBig[0]} \cup {emitted[i].siq : i \in 1..Len(emitted)}

Init == InitGen({1}, {1}, ModelPids, ModelDomains, {None}, ModelShardIds, {ToBig[0]})

Next ==
    \/ \E g \in Insts, c \in 0..MaxClock, ls \in Persisted :
          Reconstruct(g, c, "0", ls, None, Some(1))
    \/ \E g \in Insts, typ \in ModelTags : Owed + 1 <= MaxEmit /\ generate_one(g, typ)
    \/ \E g \in Insts, typ \in ModelTags, n \in 2..MaxN :
          Owed + n <= MaxEmit /\ generate_list(g, typ, n)
    \/ \E g \in Insts, c \in 0..MaxClock : Start(g, c)
    \/ \E g \in Insts : SleepDone(g)
    \/ \E g \in Insts : Step(g)
    \/ \E g \in Insts : StopIteration(g)

Spec == Init /\ [][Next]_vars

-----------------------------------------------------------------------------
(* Claims about one generator *)

SameInstance(i, j) == emitted[i].g = emitted[j].g /\ emitted[i].life = emitted[j].life

\* C1: while the wall clock has never gone backwards, no two identifiers
\* yielded by one generator instance are equal.
C1_Unique ==
    ~regressed =>
        \A i, j \in 1..Len(emitted) :
            (i < j /\ SameInstance(i, j)) => emitted[i].siq # emitted[j].siq

\* C2: whatever the clock does, the timestamp field of an identifier is at
\* least the timestamp field of every identifier the same instance yielded before.
C2_Monotonic ==
    \A i, j \in 1..Len(emitted) :
        (i < j /\ SameInstance(i, j)) => SiqTs(emitted[i].siq) <= SiqTs(emitted[j].siq)

\* C5: a generator built with last_siq = X never yields an identifier whose
\* timestamp field is below the timestamp field of X.
C5_ResumeFloor ==
    last.g # 0 => SiqTs(last.siq) >= resumed[last.g]

\* C7: every identifier yielded has the generator's shard_id in bits 48..55,
\* its domain_hash in bits 16..47, the tag pattern in its low n_bits(tag) bits,
\* the tick read for it in bits 56 and up, and fits 112 bits when the tick fits 56.
C7_Layout ==
    last.g # 0 =>
        LET siq == last.siq
            nb  == n_bits(last.typ)
        IN  /\ SiqShard(siq) = gen[last.g].shard_id
            /\ SiqDomain(siq) = gen[last.g].domain_hash
            /\ SiqSeq(siq) % Shl(1, nb) = SiqType[last.typ] % Shl(1, nb)
            /\ BigShr8[siq, 7] = ToBig[last.now]
            /\ (Len(ToBig[last.now]) <= 7 => Len(siq) <= 14)

C7_Witness ==
    /\ last.g # 0
    /\ last.typ = "USER"
    /\ last.now = 2
    /\ SiqShard(last.siq) = 300 % 256
    /\ SiqDomain(last.siq) = <<71, 25, 206, 134>>
    /\ yields = 2

-----------------------------------------------------------------------------
(* make_domain_hash as a function of its arguments: calls with arguments drawn
   from HashDomains and HashLocalIds, in any order *)

HashDomains == {"", "0", "example.com", "yusur.moe", "a"}
HashLocalIds == {None, Some(0), Some(1), Some(255), Some(256), Some(257), Some(-1)}

HashCall(domain, local_id) ==
    /\ Len(hcalls) < MaxHashCalls
    /\ hcalls' = Append(hcalls, [domain |-> domain, local_id |-> local_id,
                                 result |-> make_domain_hash(domain, local_id)])
    /\ UNCHANGED <<genVars, extVars>>

InitHash == InitGen({1}, {1}, ModelPids, {"example.com"}, {None}, {Some(256)}, {ToBig[0]})

NextHash == \E d \in HashDomains, l \in HashLocalIds : HashCall(d, l)

SpecHash == InitHash /\ [][NextHash]_vars

\* C8: make_domain_hash returns 0 for the domains '' and '0' whatever local_id
\* is, and calls with equal arguments return equal results whatever was called
\* in between.
C8_HashZeroDeterministic ==
    /\ \A i \in 1..Len(hcalls) :
          hcalls[i].domain \in {"", "0"} => hcalls[i].result = ToBig[0]
    /\ \A i, j \in 1..Len(hcalls) :
          (hcalls[i].domain = hcalls[j].domain /\ hcalls[i].local_id = hcalls[j].local_id)
              => hcalls[i].result = hcalls[j].result

C8_Witness ==
    /\ Len(hcalls) = 2
    /\ hcalls[1].domain = "" /\ hcalls[1].local_id = Some(255) /\ hcalls[1].result = ToBig[0]
    /\ hcalls[2].domain = "0" /\ hcalls[2].local_id = Some(1) /\ hcalls[2].result = ToBig[0]

\* C9: for a domain other than '' and '0', a non-zero local_id puts
\* local_id mod 256 in bits 24..31 and keeps the low 24 bits of the hash of the
\* domain alone (256 gives a top byte of 0); None and 0 leave the hash as it
\* is; the result is always in 0..2^32-1.
C9_LocalIdByte ==
    \A i \in 1..Len(hcalls) :
        LET r == hcalls[i]
            h == IntFromBytesBig(Sha256Tail(r.domain))
        IN  r.domain \notin {"", "0"} =>
              /\ Len(r.result) <= 4
              /\ \A k \in 1..Len(r.result) : r.result[k] \in 0..255
              /\ Truthy(r.local_id) =>
                    /\ BigShr8[r.result, 3] = ToBig[r.local_id[1] % 256]
                    /\ BigMod8[r.result, 3] = BigMod8[h, 3]
              /\ r.local_id = Some(256) => BigShr8[r.result, 3] = ToBig[0]
              /\ ~Truthy(r.local_id) => r.result = h

C9_Witness ==
    /\ Len(hcalls) = 2
    /\ hcalls[1].domain = "example.com" /\ hcalls[1].local_id = Some(256)
    /\ hcalls[1].result = <<71, 25, 206>>
    /\ hcalls[2].domain = "example.com" /\ hcalls[2].local_id = Some(-1)
    /\ hcalls[2].result = <<71, 25, 206, 255>>

-----------------------------------------------------------------------------
(* One generator whose clock a test freezes with set_cur_timestamp, at later
   and later instants, as tests/test_iding.py does: domain '0', shard_id 256 *)

FrozenSizes == {15}

InitFrozen == InitGen({1}, {1}, ModelPids, {"0"}, {None}, {Some(256)}, {ToBig[0]})

Frozen(g) == gen[g].test_cur_ts # None

NextFrozen ==
    \/ \E g \in Insts, v \in 1..MaxClock :
          (Frozen(g) => v > gen[g].test_cur_ts[1]) /\ set_cur_timestamp(g, v)
    \/ \E g \in Insts :
          Frozen(g) /\ Owed + 1 <= MaxFrozen /\ generate_one(g, "CONTENT")
    \/ \E g \in Insts, n \in FrozenSizes :
          Frozen(g) /\ Owed + n <= MaxFrozen /\ generate_list(g, "CONTENT", n)
    \/ \E g \in Insts :
          /\ Frozen(g) /\ Owed + 1 <= MaxFrozen
          /\ GetDefault(gen[g].counters, "THREAD") < MaxN
          /\ generate_one(g, "THREAD")
    \/ \E g \in Insts : Start(g, clock)
    \/ \E g \in Insts : Step(g)
    \/ \E g \in Insts : StopIteration(g)

SpecFrozen == InitFrozen /\ [][NextFrozen]_vars

\* C3: with the clock frozen at the reference tick, the k-th identifier of a
\* tag (from 0) is the first one plus k * 2^n_bits(tag), with the same
\* timestamp, shard and domain fields; for CONTENT the 16th is the first plus 120.
C3_FrozenStep ==
    (last.g # 0 /\ Frozen(last.g) /\ firstOf[last.g][last.typ].k >= 1) =>
        LET f == firstOf[last.g][last.typ]
            k == f.k - 1
        IN  /\ last.siq = BigAdd[f.siq, ToBig[k * Shl(1, n_bits(last.typ))]]
            /\ SiqTs(last.siq) = SiqTs(f.siq)
            /\ SiqShard(last.siq) = SiqShard(f.siq)
            /\ SiqDomain(last.siq) = SiqDomain(f.siq)
            /\ (last.typ = "CONTENT" /\ f.k = 16) => last.siq = BigAdd[f.siq, ToBig[120]]

C3_Witness ==
    /\ last.g # 0 /\ Frozen(last.g)
    /\ last.typ = "CONTENT"
    /\ firstOf[last.g]["CONTENT"].k = 16
    /\ SiqSeq(firstOf[last.g]["CONTENT"].siq) = 7
    /\ SiqSeq(last.siq) = 127

-----------------------------------------------------------------------------
(* One generator asked for more USER identifiers than one tick holds
   (CounterSpace("USER") = 2048), under a wall clock that ticks on its own.
   The generator resumes from nothing, or from an identifier of the tick at
   which it is constructed; it serves up to MaxEmit single identifiers and
   then one bulk call. *)

\* an identifier yielded at tick ts by an earlier process
EarlierSiq(ts) == MakeSiq(ts, 1, make_domain_hash("example.com", None), prepend("USER", 0))

OvfSize == CounterSpace("USER") + 1

InitOvf ==
    InitGen({1}, {1}, ModelPids, {"example.com"}, {None}, {Some(256)}, {ToBig[0], EarlierSiq(1)})

NextOvf ==
    \/ Tick
    \/ \E g \in Insts : Owed + 1 <= MaxEmit /\ generate_one(g, "USER")
    \/ \E g \in Insts : Owed <= MaxEmit /\ generate_list(g, "USER", OvfSize)
    \/ \E g \in Insts : Start(g, clock)
    \/ \E g \in Insts : Step(g)
    \/ \E g \in Insts : Spin(g, clock)
    \/ \E g \in Insts : StopIteration(g)

SpecOvf == InitOvf /\ [][NextOvf]_vars

\* C4: the identifier yielded after a counter overflow has a timestamp above
\* the timestamp of every identifier of that tag yielded before, and its
\* counter part is 0.
C4_OverflowWaits ==
    (last.g # 0 /\ last.wrapped) =>
        /\ SiqTs(last.siq) > last.prevMax
        /\ Shr(SiqSeq(last.siq), n_bits(last.typ)) = 0

-----------------------------------------------------------------------------
(* Progress of generate(): the generator of SpecOvf serving one bulk call
   under a wall clock that ticks on, may be set back MaxSkew times, and is
   fair: it keeps advancing while an iterator is about to read it.  The clock
   is observed by Start and Spin alone, so it moves only when one of them is
   the iterator's next step. *)

LiveInsts == {1}

ClockObserved == \E g \in Insts : iter[g].pc \in {"created", "spin"}

LiveTick == ClockObserved /\ Tick
LiveBack == ClockObserved /\ ClockBack

InitLive ==
    InitGen(LiveInsts, {1}, ModelPids, {"example.com"}, {None}, {Some(256)},
            {ToBig[0], EarlierSiq(1)})

NextLive ==
    \/ LiveTick
    \/ LiveBack
    \/ \E g \in Insts : Owed = 0 /\ generate_list(g, "USER", OvfSize)
    \/ \E g \in Insts : Start(g, clock)
    \/ \E g \in Insts : SleepDone(g)
    \/ \E g \in Insts : Step(g)
    \/ \E g \in Insts : Spin(g, clock)
    \/ \E g \in Insts : StopIteration(g)

\* the caller keeps iterating, sleeps end, and the clock keeps advancing
Fairness ==
    /\ WF_vars(LiveTick)
    /\ \A g \in LiveInsts :
          /\ WF_vars(Start(g, clock))
          /\ WF_vars(SleepDone(g))
          /\ WF_vars(Step(g))
          /\ WF_vars(Spin(g, clock))
          /\ WF_vars(StopIteration(g))

SpecLive == InitLive /\ [][NextLive]_vars /\ Fairness

\* C6: under a fair clock every iteration of generate(tag, n) runs to its end
\* (all n identifiers yielded), also past a clock regression or a counter
\* overflow, and generate() never ends with an error.
C6_Progress ==
    /\ \A g \in LiveInsts : (iter[g].pc # "none") ~> (iter[g].pc = "none")
    /\ [](\A g \in LiveInsts : iter[g].pc # "error")

C6_Witness ==
    /\ regressed
    /\ last.g # 0 /\ last.wrapped
    /\ iter[last.g].pc = "none"
    /\ yields >= OvfSize

-----------------------------------------------------------------------------
(* Two generators of one process, built for the same domain with shard ids
   that differ modulo 256, their steps interleaved in any order, each reading
   of the clock showing any tick *)

TwoInsts == {1, 2}
TwoShardIds == {Some(1), Some(258)}

InitTwo ==
    /\ InitGen(TwoInsts, {1}, ModelPids, {"example.com"}, {None}, TwoShardIds,
               {ToBig[0], EarlierSiq(1)})
    /\ \E sh \in [TwoInsts -> TwoShardIds], ls \in {ToBig[0], EarlierSiq(1)} :
          /\ sh[1][1] % 256 # sh[2][1] % 256
          /\ gen = [g \in TwoInsts |->
                       SiqGenInit(clock, pid, "example.com", ls, None, sh[g])]
          /\ resumed = [g \in TwoInsts |-> SiqTs(ls)]

NextTwo ==
    \/ \E g \in Insts, typ \in ModelTags : Owed + 1 <= MaxEmit /\ generate_one(g, typ)
    \/ \E g \in Insts, typ \in ModelTags, n \in 2..MaxN :
          Owed + n <= MaxEmit /\ generate_list(g, typ, n)
    \/ \E g \in Insts, c \in 0..MaxClock : Start(g, c)
    \/ \E g \in Insts : SleepDone(g)
    \/ \E g \in Insts : Step(g)
    \/ \E g \in Insts : StopIteration(g)

SpecTwo == InitTwo /\ [][NextTwo]_vars

\* no identifier is yielded by both instances
NoCommon ==
    \A i, j \in 1..Len(emitted) :
        emitted[i].g # emitted[j].g => emitted[i].siq # emitted[j].siq

\* a step of the iterator of one instance leaves last_gen_ts and counters of the other as they are
FrameTwo ==
    \A g, h \in TwoInsts :
        (g # h /\ iter'[g] # iter[g]) =>
            /\ gen'[h].last_gen_ts = gen[h].last_gen_ts
            /\ gen'[h].counters = gen[h].counters

-----------------------------------------------------------------------------
(* SiqCache: one cache over generator CacheGen, its generate() called again
   and again while the wall clock goes on (it is never set back here).  The
   refill runs the iterator of SiqGen.generate() to its end (list.extend), then
   the first identifier of the queue is popped. *)

MaxCacheCalls == 3
CacheSizes == {2}
CacheAges == {0, 1}

CacheStale_gt(last_gen_ts, max_age, now) == last_gen_ts + max_age > now

\* the test of SiqCache.generate() for a batch that is too old
CacheStale(last_gen_ts, max_age, now) == last_gen_ts + max_age < now

\* SiqCache.__init__ over an existing generator
SiqCacheInit(typ, size, max_age) ==
    [NoCache EXCEPT !.pc = "idle", !.typ = typ, !.size = size, !.max_age = max_age]

\* SiqCache.generate(), up to the refill or, with identifiers in the queue,
\* to its return; the wall clock shows c
CacheGenerate(c) ==
    /\ cache.pc = "idle"
    /\ iter[CacheGen].pc = "none"
    /\ cache.calls < MaxCacheCalls
    /\ ReadTime(CacheGen, c)
    /\ LET now  == cur_timestamp(CacheGen, c)
           q1   == IF CacheStale(gen[CacheGen].last_gen_ts, cache.max_age, now)
                   THEN <<>> ELSE cache.q
           call == [at |-> now, refilled |-> Len(q1) = 0, wasEmpty |-> Len(cache.q) = 0,
                    prevFillAt |-> cache.fillAt, ret |-> <<>>]
       IN  IF Len(q1) = 0
           THEN /\ iter' = [iter EXCEPT ![CacheGen] =
                               [pc |-> "created", typ |-> cache.typ, n |-> cache.size,
                                now |-> 0, idseq |-> 0]]
                /\ cache' = [cache EXCEPT !.pc = "fill", !.q = <<>>, !.batch = <<>>,
                                          !.served = 0, !.fillAt = now,
                                          !.calls = @ + 1, !.lastCall = call]
           ELSE /\ iter' = iter
                /\ cache' = [cache EXCEPT !.q = Tail(q1), !.served = @ + 1,
                                          !.calls = @ + 1,
                                          !.lastCall = [call EXCEPT !.ret = Head(q1)],
                                          !.returned = Append(@, Head(q1))]
    /\ UNCHANGED <<pid, gen, histVars, restarts, resumed, hcalls, mig, pcalls, auxVars>>

\* the end of SiqCache.generate() after a refill: _cache.pop(0)
CachePop ==
    /\ cache.pc = "fill"
    /\ iter[CacheGen].pc = "none"
    /\ Len(cache.q) > 0
    /\ cache' = [cache EXCEPT !.pc = "idle", !.q = Tail(@), !.served = 1,
                              !.lastCall = [@ EXCEPT !.ret = Head(cache.q)],
                              !.returned = Append(@, Head(cache.q))]
    /\ UNCHANGED <<clockVars, pid, gen, iter, histVars, restarts, resumed, hcalls, mig, pcalls, auxVars>>

InitCache ==
    /\ InitSiqGen({CacheGen}, {1}, ModelPids, {"example.com"}, {None}, {Some(256)},
                  {ToBig[0], EarlierSiq(1)})
    /\ \E size \in CacheSizes, max_age \in CacheAges :
          cache = SiqCacheInit("USER", size, max_age)
    /\ mig = NoMig
    /\ NoAux
    /\ pcalls = <<>>

NextCache ==
    \/ Tick
    \/ CacheGenerate(clock)
    \/ Start(CacheGen, clock)
    \/ Step(CacheGen)
    \/ StopIteration(CacheGen)
    \/ CachePop

SpecCache == InitCache /\ [][NextCache]_vars

\* C26: the identifiers returned by the generate() calls of one SiqCache are
\* pairwise distinct.
C26_CacheDistinct ==
    \A i, j \in 1..Len(cache.returned) : i # j => cache.returned[i] # cache.returned[j]

\* a call of SiqCache.generate() has returned
Returned == cache.pc = "idle" /\ cache.calls > 0

\* C11: a call of SiqCache.generate() invokes SiqGen.generate() only when the
\* queue is empty or the batch is older than max_age ticks (so the size-1 calls
\* that follow a refill within max_age ticks are served from that batch), and
\* what it returns is the next identifier of the batch, in generation order.
C11_Batching ==
    Returned =>
        /\ cache.lastCall.refilled =>
              \/ cache.lastCall.wasEmpty
              \/ cache.lastCall.at > cache.lastCall.prevFillAt + cache.max_age
        /\ cache.lastCall.ret = cache.batch[cache.served]

\* C12: the identifier a call of SiqCache.generate() returns has a timestamp
\* at most max_age ticks older than the clock reading of that call.
C12_Staleness ==
    Returned => SiqTs(cache.lastCall.ret) + cache.max_age >= cache.lastCall.at

\* a call served from a batch filled at an earlier tick
C12_Witness ==
    /\ Returned
    /\ ~cache.lastCall.refilled
    /\ cache.lastCall.at > cache.lastCall.prevFillAt
    /\ SiqTs(cache.lastCall.ret) < cache.lastCall.at

-----------------------------------------------------------------------------
(* Text encodings of an identifier (Siq.to_did / from_did, Siq.to_cb32 /
   from_cb32) with the codecs they call.  A byte string is a sequence of
   numbers 0..255, a text a sequence of one-character strings, and the
   outcome of a call that may raise is a record: [ok |-> TRUE, val |-> v] for
   a return, [ok |-> FALSE, err |-> e] for an exception. *)

Ret(v) == [ok |-> TRUE, val |-> v]
Raise(e) == [ok |-> FALSE, err |-> e]

\* int.to_bytes(length, 'big') and int.from_bytes(b, 'big')
to_bytes(x, length) == [i \in 1..length |-> Digit(x, length + 1 - i)]
from_bytes(b) == Trim[[i \in 1..Len(b) |-> b[Len(b) + 1 - i]]]

\* the alphabets of base64.b32encode, of its lower-case form and of Crockford base 32
B32Upper ==
    <<"A", "B", "C", "D", "E", "F", "G", "H", "I", "J", "K", "L", "M", "N", "O", "P",
      "Q", "R", "S", "T", "U", "V", "W", "X", "Y", "Z", "2", "3", "4", "5", "6", "7">>
B32Lower ==
    <<"a", "b", "c", "d", "e", "f", "g", "h", "i", "j", "k", "l", "m", "n", "o", "p",
      "q", "r", "s", "t", "u", "v", "w", "x", "y", "z", "2", "3", "4", "5", "6", "7">>
Crockford ==
    <<"0", "1", "2", "3", "4", "5", "6", "7", "8", "9", "A", "B", "C", "D", "E", "F",
      "G", "H", "J", "K", "M", "N", "P", "Q", "R", "S", "T", "V", "W", "X", "Y", "Z">>

InAlphabet(alphabet, ch) == \E i \in 1..Len(alphabet) : alphabet[i] = ch
IndexIn(alphabet, ch) == CHOOSE i \in 1..Len(alphabet) : alphabet[i] = ch

\* str.upper() and str.lower() on the characters of the model
UpperCh(ch) == IF InAlphabet(B32Lower, ch) THEN B32Upper[IndexIn(B32Lower, ch)] ELSE ch
LowerCh(ch) == IF InAlphabet(B32Upper, ch) THEN B32Lower[IndexIn(B32Upper, ch)] ELSE ch
upper(s) == [i \in 1..Len(s) |-> UpperCh(s[i])]
lower(s) == [i \in 1..Len(s) |-> LowerCh(s[i])]

\* the number of trailing '=' of a text, and str.rstrip('=')
TrailingPads[s \in Seq(STRING)] ==
    IF s = <<>> \/ s[Len(s)] # "=" THEN 0 ELSE 1 + TrailingPads[SubSeq(s, 1, Len(s) - 1)]
rstrip_pad(s) == SubSeq(s, 1, Len(s) - TrailingPads[s])

\* bit k (0 is the first, most significant) of a byte string; 0 past its end
BitOf(b, k) == IF k \div 8 < Len(b) THEN (b[k \div 8 + 1] \div (2 ^ (7 - (k % 8)))) % 2 ELSE 0

\* base64.b32encode: 5 bits a character, '=' up to a multiple of 8 characters
b32encode(b) ==
    LET nchars == 8 * ((Len(b) + 4) \div 5)
        ndata  == (8 * Len(b) + 4) \div 5
        quint(j) == 16 * BitOf(b, 5 * j) + 8 * BitOf(b, 5 * j + 1) + 4 * BitOf(b, 5 * j + 2)
                    + 2 * BitOf(b, 5 * j + 3) + BitOf(b, 5 * j + 4)
    IN  [j \in 1..nchars |-> IF j <= ndata THEN B32Upper[quint(j - 1) + 1] ELSE "="]

\* base64.b32decode (casefold=False): the length is a multiple of 8, the
\* characters before the trailing '=' are of the alphabet, and 0, 1, 3, 4 or 6
\* trailing '=' shorten the last 5 bytes to 5, 4, 3, 2 or 1
b32decode(s) ==
    LET pads == TrailingPads[s]
        m    == Len(s) - pads
        bit(k) == IF k \div 5 < m
                  THEN ((IndexIn(B32Upper, s[k \div 5 + 1]) - 1) \div (2 ^ (4 - (k % 5)))) % 2
                  ELSE 0
        nquanta == (m + 7) \div 8
        nbytes == IF pads = 0 \/ m = 0 THEN 5 * nquanta
                  ELSE 5 * (nquanta - 1) + (43 - 5 * pads) \div 8
    IN  IF Len(s) % 8 # 0 THEN Raise("binascii.Error")
        ELSE IF \E i \in 1..m : ~InAlphabet(B32Upper, s[i]) THEN Raise("binascii.Error")
        ELSE IF pads \notin {0, 1, 3, 4, 6} THEN Raise("binascii.Error")
        ELSE Ret([i \in 1..nbytes |->
                     128 * bit(8 * i - 8) + 64 * bit(8 * i - 7) + 32 * bit(8 * i - 6)
                     + 16 * bit(8 * i - 5) + 8 * bit(8 * i - 4) + 4 * bit(8 * i - 3)
                     + 2 * bit(8 * i - 2) + bit(8 * i - 1)])

\* codecs.b32lencode
b32lencode(val) == lower(rstrip_pad(b32encode(val)))

\* a ^ b on non-negative integers
BitXor[a \in Nat, b \in Nat] ==
    IF a = 0 THEN b
    ELSE IF b = 0 THEN a
    ELSE ((a + b) % 2) + 2 * BitXor[a \div 2, b \div 2]

\* binascii.crc32 (CRC-32, reflected polynomial EDB88320).  The 32-bit
\* register is kept as its two 16-bit halves <<high, low>>.
CrcPolyHigh == 60856
CrcPolyLow == 33568

\* k steps of the register: shift right by one bit, xor the polynomial in when a 1 fell out
CrcShift[hi \in Nat, lo \in Nat, k \in Nat] ==
    IF k = 0 THEN <<hi, lo>>
    ELSE IF lo % 2 = 1
    THEN CrcShift[BitXor[hi \div 2, CrcPolyHigh],
                  BitXor[lo \div 2 + 32768 * (hi % 2), CrcPolyLow], k - 1]
    ELSE CrcShift[hi \div 2, lo \div 2 + 32768 * (hi % 2), k - 1]

\* the register after the bytes of b, from all ones
CrcState[b \in Seq(Nat)] ==
    IF b = <<>> THEN <<65535, 65535>>
    ELSE LET r == CrcState[SubSeq(b, 1, Len(b) - 1)]
         IN  CrcShift[r[1], BitXor[r[2], b[Len(b)]], 8]

\* crc32(b) as its 4 bytes, most significant first
crc32(b) ==
    LET r  == CrcState[b]
        hi == 65535 - r[1]
        lo == 65535 - r[2]
    IN  <<hi \div 256, hi % 256, lo \div 256, lo % 256>>

\* Siq.format('u'): the checksum in 6 bytes, then the 14 bytes of the
\* identifier, in lower-case base 32 without its first 3 characters
FormatU(x) ==
    LET b  == to_bytes(x, 14)
        cs == <<0, 0>> \o crc32(b)
        t  == b32lencode(cs \o b)
    IN  SubSeq(t, 4, Len(t))

DidPrefix == <<"d", "i", "d", ":", "s", "i", "q", ":">>

\* str.removeprefix
removeprefix(s, prefix) ==
    IF Len(s) >= Len(prefix) /\ SubSeq(s, 1, Len(prefix)) = prefix
    THEN SubSeq(s, Len(prefix) + 1, Len(s)) ELSE s

\* Siq.to_did
to_did(x) == DidPrefix \o FormatU(x)

from_did_nocheck(did) ==
    LET d == b32decode(<<"A", "A", "A">> \o upper(removeprefix(did, DidPrefix)))
    IN  IF ~d.ok THEN d
        ELSE Ret(from_bytes(SubSeq(d.val, Min(6, Len(d.val)) + 1, Len(d.val))))

\* Siq.from_did
from_did(did) ==
    LET d == b32decode(<<"A", "A", "A">> \o upper(removeprefix(did, DidPrefix)))
    IN  IF ~d.ok THEN d
        ELSE LET cs == SubSeq(d.val, 1, Min(6, Len(d.val)))
                 b  == SubSeq(d.val, Min(6, Len(d.val)) + 1, Len(d.val))
             IN  IF from_bytes(crc32(b)) # from_bytes(cs)
                 THEN Raise("ValueError: checksum mismatch")
                 ELSE Ret(from_bytes(b))

\* str.maketrans(from, to, '='): a dict
B32_TO_CROCKFORD == [type |-> "dict", from |-> B32Upper, to |-> Crockford, delete |-> {"="}]
CROCKFORD_TO_B32 == [type |-> "dict", from |-> Crockford, to |-> B32Upper, delete |-> {"="}]

\* str.translate(table) with a table made by str.maketrans
StrTranslate(s, table) ==
    LET kept == SelectSeq(s, LAMBDA ch : ch \notin table.delete)
    IN  [i \in 1..Len(kept) |->
            IF InAlphabet(table.from, kept[i]) THEN table.to[IndexIn(table.from, kept[i])]
            ELSE kept[i]]

\* bytes.translate(table): the table must be a bytes object of length 256;
\* with a dict it raises TypeError
BytesTranslate(b, table) ==
    IF table.type # "bytes" THEN Raise("TypeError") ELSE Ret(StrTranslate(b, table))

\* codecs.cb32encode and codecs.cb32decode
cb32encode(val) == StrTranslate(b32encode(val), B32_TO_CROCKFORD)
cb32decode(val) ==
    LET t == BytesTranslate(upper(val), CROCKFORD_TO_B32)
    IN  IF ~t.ok THEN t
        ELSE b32decode(t.val \o [i \in 1..((8 - (Len(val) % 8)) % 8) |-> "="])

\* str.lstrip('0') and str.zfill(width)
lstrip0[s \in Seq(STRING)] == IF s # <<>> /\ s[1] = "0" THEN lstrip0[Tail(s)] ELSE s
zfill(s, width) == [i \in 1..(width - Len(s)) |-> "0"] \o s

\* Siq.to_cb32 and Siq.from_cb32
to_cb32(x) == lstrip0[cb32encode(to_bytes(x, 15))]
from_cb32(val) ==
    LET d == cb32decode(zfill(val, 24))
    IN  IF ~d.ok THEN d ELSE Ret(from_bytes(d.val))

-----------------------------------------------------------------------------
(* An identifier is built from a value of 0..2^112-1, encoded as a DID or in
   Crockford base 32 and decoded again, or its DID is decoded after one
   character of the encoded part was replaced by another. *)

\* the identifier of TestIding.test_representation
TestSiq == from_bytes(<<94, 11, 210, 240, 0, 0, 0, 0, 0, 0, 0, 0, 7>>)

\* an identifier whose first 13 bytes have the CRC-32 of all its 14 bytes
TruncSiq == from_bytes(<<81, 235, 246, 25, 0>>)

TextValues ==
    {<<>>, TestSiq, TruncSiq, [i \in 1..14 |-> 255]}

\* the characters a character of a DID is replaced by
TextChars == {B32Lower[i] : i \in 1..Len(B32Lower)} \cup {"A", "P", "=", "0"}

\* Siq(x)
SiqNew(x) == [op |-> "Siq", x |-> x]

\* Siq.from_did(Siq(x).to_did())
DidRoundTrip ==
    /\ Len(pcalls) = 1
    /\ LET text == to_did(pcalls[1].x)
       IN  pcalls' = Append(pcalls, [op |-> "did", text |-> text, back |-> from_did(text)])
    /\ UNCHANGED <<genVars, hcalls, cache, mig, auxVars>>

\* Siq.from_cb32(Siq(x).to_cb32())
Cb32RoundTrip ==
    /\ Len(pcalls) = 1
    /\ LET text == to_cb32(pcalls[1].x)
       IN  pcalls' = Append(pcalls, [op |-> "cb32", text |-> text, back |-> from_cb32(text)])
    /\ UNCHANGED <<genVars, hcalls, cache, mig, auxVars>>

\* Siq.from_did of Siq(x).to_did() with character i of the encoded part replaced by ch
DidCorrupt(i, ch) ==
    /\ Len(pcalls) = 1
    /\ LET text == to_did(pcalls[1].x)
           k    == Len(DidPrefix) + i
       IN  /\ k <= Len(text)
           /\ ch # text[k]
           /\ pcalls' = Append(pcalls, [op |-> "corrupt", i |-> i, ch |-> ch, was |-> text[k],
                                        back |-> from_did([text EXCEPT ![k] = ch])])
    /\ UNCHANGED <<genVars, hcalls, cache, mig, auxVars>>

InitText ==
    /\ InitSiqGen({1}, {1}, ModelPids, {"example.com"}, {None}, {Some(256)}, {ToBig[0]})
    /\ cache = NoCache
    /\ NoAux
    /\ mig = NoMig
    /\ \E x \in TextValues : pcalls = <<SiqNew(x)>>

\* the encoded part of a DID has 29 characters
DidLen == 29

NextText ==
    \/ DidRoundTrip
    \/ Cb32RoundTrip
    \/ \E i \in 1..DidLen, ch \in TextChars : DidCorrupt(i, ch)

SpecText == InitText /\ [][NextText]_vars

\* C13: decoding the DID or the Crockford base-32 text of an identifier gives
\* the identifier back.
C13_RoundTrip ==
    \A k \in 1..Len(pcalls) :
        pcalls[k].op \in {"did", "cb32"} => pcalls[k].back = Ret(pcalls[1].x)

\* C14 as stated: from_did fails for a DID with one character of the encoded
\* part replaced by any different character.
C14_AnyCharFails ==
    \A k \in 1..Len(pcalls) : pcalls[k].op = "corrupt" => ~pcalls[k].back.ok

\* C14, amended: from_did fails with the checksum mismatch for a DID with one
\* character of the encoded part replaced by a different character of the
\* lower-case base-32 alphabet.
C14_AlphabetCharFails ==
    \A k \in 1..Len(pcalls) :
        (pcalls[k].op = "corrupt" /\ InAlphabet(B32Lower, pcalls[k].ch))
            => pcalls[k].back = Raise("ValueError: checksum mismatch")

\* the replaced character holds the last 3 bits of the checksum and the first
\* 2 bits of the identifier
C14_Witness ==
    /\ Len(pcalls) = 2
    /\ pcalls[1].x = TestSiq
    /\ pcalls[2].op = "corrupt"
    /\ pcalls[2].i = 7
    /\ InAlphabet(B32Lower, pcalls[2].ch)
    /\ ~pcalls[2].back.ok

-----------------------------------------------------------------------------
(* bits.mask_shift and bits.count_ones on machine-size integers.  Python's
   integers are two's complement without end: for a negative a, a >> k is the
   floor of a / 2^k and bit k of a is (a >> k) % 2, as \div and % give them.
   A loop or recursion that has not ended after MaskFuel passes is reported
   as not terminated. *)

MaskFuel == 40

Done(v) == [done |-> TRUE, val |-> v]
NotDone == [done |-> FALSE, val |-> 0]

\* a >> k and bit k of a, for any integer a
Sar(a, k) == a \div (2 ^ k)
BitAt(a, k) == Sar(a, k) % 2

\* while mask & (1 << i) == 0: i += 1
LowLoop[mask \in Int, i \in Nat, fuel \in Nat] ==
    IF fuel = 0 THEN NotDone
    ELSE IF BitAt(mask, i) * (2 ^ i) = 0 THEN LowLoop[mask, i + 1, fuel - 1]
    ELSE Done(i)

\* while mask & (1 << o) == 1: o += 1
OnesLoop[mask \in Int, o \in Nat, fuel \in Nat] ==
    IF fuel = 0 THEN NotDone
    ELSE IF BitAt(mask, o) * (2 ^ o) = 1 THEN OnesLoop[mask, o + 1, fuel - 1]
    ELSE Done(o)

MaskShiftRun_noall[n \in Int, mask \in Int, fuel \in Nat] ==
    IF fuel = 0 THEN NotDone
    ELSE IF mask = 0 THEN Done(0)
    ELSE LET i  == LowLoop[mask, 0, fuel]
             n1 == Sar(n, i.val)
             m1 == Sar(mask, i.val)
             o  == OnesLoop[m1, 0, fuel]
             r  == MaskShiftRun_noall[Sar(n1, o.val), Sar(m1, o.val), fuel - 1]
         IN  IF ~i.done \/ ~o.done \/ ~r.done THEN NotDone
             ELSE Done((n1 % (2 ^ o.val)) + r.val * (2 ^ o.val))

\* mask_shift(n, mask) with its loops and its recursion; the two operands of
\* the final | have no 1 bit in common, so that | is +
MaskShiftRun[n \in Int, mask \in Int, fuel \in Nat] ==
    IF fuel = 0 THEN NotDone
    ELSE IF mask = 0 THEN Done(0)
    ELSE IF mask = -1 THEN Done(n)
    ELSE LET i  == LowLoop[mask, 0, fuel]
             n1 == Sar(n, i.val)
             m1 == Sar(mask, i.val)
             o  == OnesLoop[m1, 0, fuel]
             r  == MaskShiftRun[Sar(n1, o.val), Sar(m1, o.val), fuel - 1]
         IN  IF ~i.done \/ ~o.done \/ ~r.done THEN NotDone
             ELSE Done((n1 % (2 ^ o.val)) + r.val * (2 ^ o.val))

mask_shift_noall(n, mask) == MaskShiftRun_noall[n, mask, MaskFuel]

\* bits.mask_shift
mask_shift(n, mask) == MaskShiftRun[n, mask, MaskFuel]

\* bits.count_ones, for n >= 0
count_ones[n \in Nat] == IF n = 0 THEN 0 ELSE (n % 2) + count_ones[n \div 2]

(* mask_shift called with small operands of either sign *)

MaxArg == 31
BitsArgs == (0 - 2)..MaxArg
BitsMasks == (0 - 9)..MaxArg

MaskShiftCall(n, mask) ==
    /\ pcalls = <<>>
    /\ pcalls' = <<[op |-> "mask_shift", n |-> n, mask |-> mask, out |-> mask_shift(n, mask)]>>
    /\ UNCHANGED <<genVars, hcalls, cache, mig, auxVars>>

InitBits == InitGen({1}, {1}, ModelPids, {"example.com"}, {None}, {Some(256)}, {ToBig[0]})

NextBits == \E n \in BitsArgs, mask \in BitsMasks : MaskShiftCall(n, mask)

SpecBits == InitBits /\ [][NextBits]_vars

\* the positions of the 1 bits of a mask >= 0, and the bits of n at these
\* positions moved next to each other, the lowest first
MaskWidth == 20
OnesOf(mask) == {p \in 0..MaskWidth : BitAt(mask, p) = 1}
SumBits[P \in SUBSET (0..MaskWidth), n \in Int, mask \in Int] ==
    IF P = {} THEN 0
    ELSE LET p == CHOOSE x \in P : TRUE
         IN  BitAt(n, p) * (2 ^ Cardinality({x \in OnesOf(mask) : x < p}))
             + SumBits[P \ {p}, n, mask]
Compacted(n, mask) == SumBits[OnesOf(mask), n, mask]

-----------------------------------------------------------------------------
(* bits.split_bits and bits.join_bits.  The number made of a chunk of bytes
   is wider than a machine integer (88 bits for nbits = 11): it is a big, and
   mask_shift is followed on bigs, for non-negative operands. *)

\* bit k of a big, a >> k and a << k for any number k of bits
BigBit(b, k) == (Digit(b, k \div 8 + 1) \div (2 ^ (k % 8))) % 2
BigShrBits[b \in Seq(Nat), k \in Nat] ==
    LET c == BigShr8[b, k \div 8]
        r == k % 8
    IN  Trim[[i \in 1..Len(c) |-> (c[i] \div (2 ^ r)) + (Digit(c, i + 1) % (2 ^ r)) * (2 ^ (8 - r))]]
BigShlBits[b \in Seq(Nat), k \in Nat] ==
    LET r == k % 8
        c == Trim[[i \in 1..(Len(b) + 1) |->
                     ((Digit(b, i) * (2 ^ r)) % 256) + (IF i = 1 THEN 0 ELSE b[i - 1] \div (2 ^ (8 - r)))]]
    IN  BigShl8[c, k \div 8]

\* while mask & (1 << i) == 0: i += 1, for a mask other than 0
BigLowLoop[mask \in Seq(Nat), i \in Nat] ==
    IF BigBit(mask, i) = 0 THEN BigLowLoop[mask, i + 1] ELSE i

\* bits.mask_shift on bigs; the second loop stops at o = 1 (OnesLoop)
mask_shift_wide[n \in Seq(Nat), mask \in Seq(Nat)] ==
    IF mask = <<>> THEN 0
    ELSE LET i  == BigLowLoop[mask, 0]
             n1 == BigShrBits[n, i]
             m1 == BigShrBits[mask, i]
             o  == OnesLoop[Digit(m1, 1), 0, MaskFuel].val
         IN  (Digit(n1, 1) % (2 ^ o)) + mask_shift_wide[BigShrBits[n1, o], BigShrBits[m1, o]] * (2 ^ o)

\* math.gcd
gcd[a \in Nat, b \in Nat] == IF b = 0 THEN a ELSE gcd[b, a % b]

\* chunk_size and mask_n of split_bits and join_bits
ChunkSize(nbits) == nbits \div gcd[nbits, 8]
MaskN(nbits) == (ChunkSize(nbits) * 8) \div nbits

SplitMask_low(nbits, j) == BigShlBits[ToBig[2 ^ nbits - 1], j * nbits]

\* the mask of field j of a chunk: ((1 << nbits) - 1) << ((mask_n - 1 - j) * nbits)
SplitMask(nbits, j) == BigShlBits[ToBig[2 ^ nbits - 1], (MaskN(nbits) - 1 - j) * nbits]

\* the numbers of the chunk of buf at offset off, padded with zero bytes
ChunkNumbers(buf, nbits, off) ==
    LET chunk == [i \in 1..ChunkSize(nbits) |-> IF off + i <= Len(buf) THEN buf[off + i] ELSE 0]
        num   == from_bytes(chunk)
    IN  [j \in 1..MaskN(nbits) |-> mask_shift_wide[num, SplitMask(nbits, j - 1)]]

\* the while loop of split_bits
SplitLoop[buf \in Seq(Nat), nbits \in Nat, off \in Nat] ==
    IF off < Len(buf)
    THEN ChunkNumbers(buf, nbits, off) \o SplitLoop[buf, nbits, off + ChunkSize(nbits)]
    ELSE <<>>

\* bits.split_bits
split_bits(buf, nbits) ==
    LET est_len == (Len(buf) * 8 + nbits - 1) \div nbits
        numbers == SplitLoop[buf, nbits, 0]
    IN  IF \E i \in (est_len + 1)..Len(numbers) : numbers[i] # 0
        THEN Raise("AssertionError")
        ELSE Ret(SubSeq(numbers, 1, Min(est_len, Len(numbers))))

\* the for loop of join_bits with its else clause
JoinLoop[l \in Seq(Nat), nbits \in Nat, chunk \in Seq(Nat), j \in Int] ==
    IF l = <<>>
    THEN (IF chunk # <<>> THEN to_bytes(chunk, ChunkSize(nbits)) ELSE <<>>)
    ELSE LET c == BigOr[chunk, BigShlBits[ToBig[l[1]], nbits * j]]
         IN  IF j <= 0
             THEN to_bytes(c, ChunkSize(nbits)) \o JoinLoop[Tail(l), nbits, <<>>, MaskN(nbits) - 1]
             ELSE JoinLoop[Tail(l), nbits, c, j - 1]

\* bits.join_bits
join_bits(l, nbits) == JoinLoop[l, nbits, <<>>, MaskN(nbits) - 1]

(* a byte string is split into chunks of nbits bits and joined again *)

MaxBytes == 2
ByteValues == {0, 1, 128, 255}
ChunkWidths == {1, 3, 5, 7, 8, 11, 12, 16}
ByteStrings == UNION {[1..k -> ByteValues] : k \in 0..MaxBytes}

SplitJoinCall(buf, nbits) ==
    /\ pcalls = <<>>
    /\ LET sp == split_bits(buf, nbits)
       IN  pcalls' = <<[op |-> "split_join", buf |-> buf, nbits |-> nbits, split |-> sp,
                        joined |-> IF sp.ok THEN join_bits(sp.val, nbits) ELSE <<>>]>>
    /\ UNCHANGED <<genVars, hcalls, cache, mig, auxVars>>

InitChunks == InitGen({1}, {1}, ModelPids, {"example.com"}, {None}, {Some(256)}, {ToBig[0]})

NextChunks == \E buf \in ByteStrings, nbits \in ChunkWidths : SplitJoinCall(buf, nbits)

SpecChunks == InitChunks /\ [][NextChunks]_vars

\* two byte strings are equal up to zero bytes at the end of one of them
EqualUpToZeros(a, b) ==
    \A i \in 1..Max(Len(a), Len(b)) :
        (IF i <= Len(a) THEN a[i] ELSE 0) = (IF i <= Len(b) THEN b[i] ELSE 0)

\* C19: split_bits never fails its assertion and returns ceil(8 * len / nbits)
\* chunks below 2^nbits, and join_bits gives the byte string back up to zero
\* bytes at its end.
C19_SplitJoin ==
    \A k \in 1..Len(pcalls) :
        pcalls[k].op = "split_join" =>
            LET c == pcalls[k]
            IN  /\ c.split.ok
                /\ Len(c.split.val) = (8 * Len(c.buf) + c.nbits - 1) \div c.nbits
                /\ \A i \in 1..Len(c.split.val) : c.split.val[i] < 2 ^ c.nbits
                /\ EqualUpToZeros(c.joined, c.buf)

\* two bytes in chunks of 11 bits
C19_Witness ==
    /\ Len(pcalls) = 1
    /\ pcalls[1].op = "split_join"
    /\ pcalls[1].nbits = 11
    /\ pcalls[1].buf = <<255, 128>>
    /\ pcalls[1].split = Ret(<<2044, 0>>)
    /\ Len(pcalls[1].joined) = 11

-----------------------------------------------------------------------------
(* SiqType.n_bits and SiqType.prepend, for every member and for counters
   around the ends of the three counter spaces *)

TagCounters == {0, 1, 2047, 2048, 4095, 4096, 8191, 8192}
LeafTypes == {"CONTENT", "MULTI", "MANYTOMANY", "TERNARY"}

PrependCall(typ, counter) ==
    /\ pcalls = <<>>
    /\ pcalls' = <<[op |-> "prepend", typ |-> typ, counter |-> counter,
                    n_bits |-> n_bits(typ), out |-> prepend(typ, counter)]>>
    /\ UNCHANGED <<genVars, hcalls, cache, mig, auxVars>>

InitTag == InitGen({1}, {1}, ModelPids, {"example.com"}, {None}, {Some(256)}, {ToBig[0]})

NextTag == \E typ \in Tags, counter \in TagCounters : PrependCall(typ, counter)

SpecTag == InitTag /\ [][NextTag]_vars

\* the smallest n such that bit n of code is 0
LowRun[code \in Nat] == IF code % 2 = 0 THEN 0 ELSE 1 + LowRun[code \div 2]

\* prepend(counter) is the counter above the low n bits of the code, and is
\* below 2^16 exactly when the counter is below 2^(16 - n)
PrependShape(c) ==
    /\ c.out = c.counter * (2 ^ c.n_bits) + (SiqType[c.typ] % (2 ^ c.n_bits))
    /\ (c.out < 2 ^ 16) <=> (c.counter < 2 ^ (16 - c.n_bits))

\* C20 as stated: n_bits is the length of the code's low-order run of 1-bits,
\* 4 for the leaf types and 5 or 6 for the others, and prepend(counter) is
\* (counter << n_bits) | (code mod 2^n_bits), below 2^16 exactly when
\* counter < 2^(16 - n_bits).
C20_LowRunWidth ==
    \A k \in 1..Len(pcalls) :
        pcalls[k].op = "prepend" =>
            LET c == pcalls[k]
            IN  /\ c.n_bits = LowRun[SiqType[c.typ]]
                /\ c.typ \in LeafTypes => c.n_bits = 4
                /\ c.typ \notin LeafTypes => c.n_bits \in {5, 6}
                /\ PrependShape(c)

\* C20 (amended): n_bits is the position of the highest 1 bit of the code
\* (2^n_bits <= code < 2^(n_bits + 1)): 3 for the leaf types, 4 for THREAD and
\* MESSAGE, 5 for the others; prepend(counter) is
\* (counter << n_bits) | (code mod 2^n_bits), below 2^16 exactly when
\* counter < 2^(16 - n_bits).
C20_HighBitWidth ==
    \A k \in 1..Len(pcalls) :
        pcalls[k].op = "prepend" =>
            LET c == pcalls[k]
            IN  /\ 2 ^ c.n_bits <= SiqType[c.typ]
                /\ SiqType[c.typ] < 2 ^ (c.n_bits + 1)
                /\ c.typ \in LeafTypes => c.n_bits = 3
                /\ c.typ \in {"THREAD", "MESSAGE"} => c.n_bits = 4
                /\ c.typ \notin LeafTypes \cup {"THREAD", "MESSAGE"} => c.n_bits = 5
                /\ PrependShape(c)

\* the first counter of CONTENT that no longer fits 16 bits
C20_Witness ==
    /\ Len(pcalls) = 1
    /\ pcalls[1].op = "prepend"
    /\ pcalls[1].typ = "CONTENT"
    /\ pcalls[1].counter = 8192
    /\ pcalls[1].n_bits = 3
    /\ pcalls[1].out = 65543

-----------------------------------------------------------------------------
(* migrate.SnowflakeSiqMigrator and migrate.UlidSiqMigrator.  A snowflake of
   the model is an integer below 2^31 with the layout of the 64-bit ones
   (timestamp from bit 22, worker bits 12..21, sequence bits 0..11); a ULID is
   a big of 128 bits. *)

\* x % 0xffffffff of a domain hash (below 2^32)
Mod32Ones(h) == IF h = <<255, 255, 255, 255>> THEN <<>> ELSE h

\* a // d on a big, d a small integer: the quotient and the remainder
BigDivRem[b \in Seq(Nat), d \in Nat] ==
    IF b = <<>> THEN [q |-> <<>>, r |-> 0]
    ELSE LET hi  == BigDivRem[Tail(b), d]
             cur == hi.r * 256 + b[1]
         IN  [q |-> <<cur \div d>> \o hi.q, r |-> cur % d]
BigDiv(b, d) == Trim[BigDivRem[b, d].q]

\* SnowflakeSiqMigrator.__init__ with the default masks
SnowflakeMigratorInit(domain, epoch) ==
    [kind          |-> "snowflake",
     domain_hash   |-> make_domain_hash(domain, None),
     epoch         |-> epoch,
     ts_stop       |-> 22,
     ts_accuracy   |-> 1000,
     shard_mask    |-> 255 * (2 ^ 12),
     shard_ts_mask |-> 3 * (2 ^ 20),
     serial_mask   |-> 4095]

\* UlidSiqMigrator has the constructor of SiqMigrator
UlidMigratorInit(domain) ==
    [kind |-> "ulid", domain_hash |-> make_domain_hash(domain, None)]

\* the parts of SnowflakeSiqMigrator.to_siq: ts, shard and ser at the return
SnowflakeParts_nocarry(m, orig_id, typ) ==
    LET ts_ms         == Shr(orig_id, m.ts_stop) + m.epoch
        ts            == (ts_ms * Shl(1, 16)) \div m.ts_accuracy
        shard         == mask_shift(orig_id, m.shard_mask).val
        shard_hi0     == IF m.shard_ts_mask # 0 THEN mask_shift(orig_id, m.shard_ts_mask).val ELSE 0
        ser0          == mask_shift(orig_id, m.serial_mask).val
        ser_bits      == 16 - n_bits(typ)
        orig_ser_bits == count_ones[m.serial_mask]
        narrow        == ser_bits < orig_ser_bits
        ser           == IF narrow THEN ser0 % Shl(1, ser_bits) ELSE ser0
        shard_hi      == IF narrow THEN Shl(shard_hi0, orig_ser_bits - ser_bits) ELSE shard_hi0
    IN  [ts |-> ts + shard_hi, shard |-> shard, ser |-> ser]

SnowflakeParts(m, orig_id, typ) ==
    LET ts_ms         == Shr(orig_id, m.ts_stop) + m.epoch
        ts            == (ts_ms * Shl(1, 16)) \div m.ts_accuracy
        shard         == mask_shift(orig_id, m.shard_mask).val
        shard_hi0     == IF m.shard_ts_mask # 0 THEN mask_shift(orig_id, m.shard_ts_mask).val ELSE 0
        ser0          == mask_shift(orig_id, m.serial_mask).val
        ser_bits      == 16 - n_bits(typ)
        orig_ser_bits == count_ones[m.serial_mask]
        narrow        == ser_bits < orig_ser_bits
        ser           == IF narrow THEN ser0 % Shl(1, ser_bits) ELSE ser0
        ser_hi        == IF narrow THEN Shr(ser0, ser_bits) ELSE 0
        shard_hi      == IF narrow THEN Shl(shard_hi0, orig_ser_bits - ser_bits) + ser_hi ELSE shard_hi0
    IN  [ts |-> ts + shard_hi, shard |-> shard, ser |-> ser]

SnowflakeToSiq_noshard(m, orig_id, typ) ==
    LET p == SnowflakeParts(m, orig_id, typ)
    IN  BigOr[BigOr[BigShl8[ToBig[p.ts], 7],
                    BigShl8[Mod32Ones(m.domain_hash), 2]],
              ToBig[prepend(typ, p.ser) % 65535]]

\* SnowflakeSiqMigrator.to_siq
SnowflakeToSiq(m, orig_id, typ) ==
    LET p == SnowflakeParts(m, orig_id, typ)
    IN  BigOr[BigOr[BigOr[BigShl8[ToBig[p.ts], 7],
                          BigShl8[ToBig[p.shard % 256], 6]],
                    BigShl8[Mod32Ones(m.domain_hash), 2]],
              ToBig[prepend(typ, p.ser) % 65535]]

\* the three masks of UlidSiqMigrator.to_siq
UlidTsSeqMask == BigShlBits[ToBig[63], 74]
UlidShardMask == BigShlBits[ToBig[255], 66]
UlidSeqMask == BigShlBits[ToBig[65535], 50]

\* UlidSiqMigrator.to_siq
UlidToSiq(m, orig_id, typ) ==
    LET ts_seq == mask_shift_wide[orig_id, UlidTsSeqMask]
        shard  == mask_shift_wide[orig_id, UlidShardMask]
        seq    == mask_shift_wide[orig_id, UlidSeqMask]
        ts     == BigAdd[BigDiv(BigShl8[BigShr8[orig_id, 10], 2], 1000), ToBig[ts_seq]]
        low    == BitOr[Shl(Shr(seq, n_bits(typ)), n_bits(typ)), prepend(typ, 0)]
    IN  BigOr[BigOr[BigOr[BigShl8[ts, 7],
                          BigShl8[ToBig[shard % 256], 6]],
                    BigShl8[Mod32Ones(m.domain_hash), 2]],
              ToBig[low % 65535]]

to_siq(m, orig_id, typ) ==
    IF m.kind = "snowflake" THEN SnowflakeToSiq(m, orig_id, typ) ELSE UlidToSiq(m, orig_id, typ)

MigAfterToSiq_count(m) == [m EXCEPT !.domain_hash = BigAdd[m.domain_hash, ToBig[1]]]

\* the migrator after a call of to_siq: neither to_siq assigns to a field
MigAfterToSiq(m) == m

MaxMigCalls == 3

\* one call of to_siq on the migrator
ToSiqCall(orig_id, typ) ==
    /\ mig.kind # ""
    /\ Len(pcalls) < MaxMigCalls
    /\ pcalls' = Append(pcalls, [op |-> "to_siq", orig_id |-> orig_id, typ |-> typ,
                                 out |-> to_siq(mig, orig_id, typ)])
    /\ mig' = MigAfterToSiq(mig)
    /\ UNCHANGED <<genVars, hcalls, cache, auxVars>>

(* to_siq called up to MaxMigCalls times on one migrator of either class *)

PureSnowflakes == {5, 8388607}
PureUlids == {<<255, 255, 255, 255, 255, 255, 255, 255, 255, 255, 232, 3>>,
              <<90, 90, 90, 90, 90, 90, 90, 90, 90, 90, 21, 205, 91, 7>>}
PureTypes == {"CONTENT", "USER"}

InitPure ==
    /\ InitSiqGen({1}, {1}, ModelPids, {"example.com"}, {None}, {Some(256)}, {ToBig[0]})
    /\ cache = NoCache
    /\ NoAux
    /\ mig \in {SnowflakeMigratorInit("example.com", 0), UlidMigratorInit("example.com")}
    /\ pcalls = <<>>

NextPure ==
    \E typ \in PureTypes :
        \/ \E id \in PureSnowflakes : mig.kind = "snowflake" /\ ToSiqCall(id, typ)
        \/ \E id \in PureUlids : mig.kind = "ulid" /\ ToSiqCall(id, typ)

SpecPure == InitPure /\ [][NextPure]_vars

\* calls with the same orig_id and target_type have returned the same value
SameInSameOut ==
    \A i, j \in 1..Len(pcalls) :
        (pcalls[i].orig_id = pcalls[j].orig_id /\ pcalls[i].typ = pcalls[j].typ)
            => pcalls[i].out = pcalls[j].out

C27_TypeDomainKept ==
    \A k \in 1..Len(pcalls) :
        pcalls[k].op = "to_siq" =>
            LET typ == pcalls[k].typ
            IN  /\ SiqSeq(pcalls[k].out) % Shl(1, n_bits(typ)) = SiqType[typ] % Shl(1, n_bits(typ))
                /\ SiqDomain(pcalls[k].out) = mig.domain_hash

MaxSnowTs == 1
MigEpochs == {0, 1}
SnowWorkers == {0, 255, 768, 1023}
SnowSerials == {0, 2047, 2048, 4095}
MakeSnowflake(t, w, ser) == t * (2 ^ 22) + w * (2 ^ 12) + ser
Snowflakes == {MakeSnowflake(t, w, ser) : t \in 0..MaxSnowTs, w \in SnowWorkers, ser \in SnowSerials}

InitMig ==
    /\ InitSiqGen({1}, {1}, ModelPids, {"example.com"}, {None}, {Some(256)}, {ToBig[0]})
    /\ cache = NoCache
    /\ NoAux
    /\ mig \in {SnowflakeMigratorInit("example.com", e) : e \in MigEpochs}
    /\ pcalls = <<>>

NextMig ==
    \E id \in Snowflakes, typ \in Tags :
        /\ pcalls = <<>> \/ (Len(pcalls) = 1 /\ pcalls[1].typ = typ)
        /\ ToSiqCall(id, typ)

SpecMig == InitMig /\ [][NextMig]_vars

\* a < b on bigs
SeqLt[a \in Seq(Nat), b \in Seq(Nat)] ==
    IF a = <<>> THEN FALSE
    ELSE IF a[Len(a)] # b[Len(b)] THEN a[Len(a)] < b[Len(b)]
    ELSE SeqLt[SubSeq(a, 1, Len(a) - 1), SubSeq(b, 1, Len(b) - 1)]
BigLt(a, b) == IF Len(a) # Len(b) THEN Len(a) < Len(b) ELSE SeqLt[a, b]

\* the 10 worker bits of a snowflake
WorkerBits(id) == (id \div (2 ^ 12)) % (2 ^ 10)

\* C16: with the default masks and one domain, epoch and target_type, two
\* distinct snowflakes are mapped to distinct SIQs.
C16_OneToOne ==
    \A i, j \in 1..Len(pcalls) :
        (pcalls[i].typ = pcalls[j].typ /\ pcalls[i].orig_id # pcalls[j].orig_id)
            => pcalls[i].out # pcalls[j].out

\* two sequence numbers of one millisecond that differ in their top bit only,
\* for a type with 11 counter bits
C16_Witness ==
    /\ Len(pcalls) = 2
    /\ pcalls[1].typ = "USER"
    /\ pcalls[2].typ = "USER"
    /\ pcalls[1].orig_id = MakeSnowflake(1, 255, 0)
    /\ pcalls[2].orig_id = MakeSnowflake(1, 255, 2048)
    /\ pcalls[1].out # pcalls[2].out

\* C17: with the default masks and one target_type, for two snowflakes a < b
\* with the same worker bits 12..21, to_siq(a) < to_siq(b).
C17_OrderKept ==
    \A i, j \in 1..Len(pcalls) :
        (/\ pcalls[i].typ = pcalls[j].typ
         /\ pcalls[i].orig_id < pcalls[j].orig_id
         /\ WorkerBits(pcalls[i].orig_id) = WorkerBits(pcalls[j].orig_id))
            => BigLt(pcalls[i].out, pcalls[j].out)

\* the last sequence number of a millisecond and the first of the next one
C17_Witness ==
    /\ Len(pcalls) = 2
    /\ pcalls[1].typ = "PREMIUM"
    /\ pcalls[2].typ = "PREMIUM"
    /\ pcalls[1].orig_id = MakeSnowflake(1, 1023, 0)
    /\ pcalls[2].orig_id = MakeSnowflake(0, 1023, 4095)
    /\ BigLt(pcalls[2].out, pcalls[1].out)

-----------------------------------------------------------------------------
(* collections.TimedDict.  int(time.time()) reads the wall clock, here in
   whole seconds.  _expires is made a dict by __init__; an int can be stored
   in its place, and then has no items to read, test or delete. *)

DictOf(m) == [type |-> "dict", map |-> m]
IntOf(n) == [type |-> "int", val |-> n]

\* a dict without items, a dict d with d[k] = v, and d without k
EmptyMap == [k \in {} |-> 0]
MapSet(m, k, v) == [x \in DOMAIN m \cup {k} |-> IF x = k THEN v ELSE m[x]]
MapDel(m, k) == [x \in DOMAIN m \ {k} |-> m[x]]

NoDictCall == [op |-> "", key |-> "", at |-> 0, out |-> Ret(None), had |-> None, present |-> FALSE]

\* TimedDict.__init__(ttl)
TimedDictInit(ttl) ==
    [kind |-> "TimedDict", ttl |-> ttl, items |-> EmptyMap, expires |-> DictOf(EmptyMap),
     setAt |-> EmptyMap, calls |-> 0, lastCall |-> NoDictCall]

\* TimedDict.check_ex(key) at second now: the dict afterwards, or the error raised
check_ex(d, key, now) ==
    IF key \in DOMAIN d.items
    THEN IF d.expires.type # "dict" THEN Raise("TypeError")
         ELSE IF key \notin DOMAIN d.expires.map THEN Raise("KeyError")
         ELSE IF d.expires.map[key] < now
         THEN Ret([d EXCEPT !.expires = DictOf(MapDel(d.expires.map, key)),
                            !.items = MapDel(d.items, key)])
         ELSE Ret(d)
    ELSE IF d.expires.type # "dict" THEN Raise("TypeError")
    ELSE IF key \in DOMAIN d.expires.map
    THEN Ret([d EXCEPT !.expires = DictOf(MapDel(d.expires.map, key))])
    ELSE Ret(d)

\* the history of a call: what it returned or raised, the latest d[key] = v
\* still standing before it, and whether the key is an item after it
DictCalled(d, op, key, out) ==
    [d EXCEPT !.calls = @ + 1,
              !.lastCall = [op |-> op, key |-> key, at |-> clock, out |-> out,
                            had |-> IF key \in DOMAIN tdict.setAt THEN Some(tdict.setAt[key]) ELSE None,
                            present |-> key \in DOMAIN d.items]]

MaxDictCalls == 4

\* TimedDict.__getitem__(key)
DictGetItem(key) ==
    /\ tdict.kind = "TimedDict"
    /\ tdict.calls < MaxDictCalls
    /\ LET ck == check_ex(tdict, key, clock)
       IN  tdict' = IF ~ck.ok THEN DictCalled(tdict, "getitem", key, ck)
                    ELSE IF key \in DOMAIN ck.val.items
                    THEN DictCalled(ck.val, "getitem", key, Ret(Some(ck.val.items[key])))
                    ELSE DictCalled([ck.val EXCEPT !.setAt = MapDel(@, key)], "getitem", key,
                                    Raise("KeyError"))
    /\ UNCHANGED <<genVars, hcalls, cache, mig, pcalls, sfgen, thr>>

\* TimedDict.get(key)
DictGet(key) ==
    /\ tdict.kind = "TimedDict"
    /\ tdict.calls < MaxDictCalls
    /\ LET ck == check_ex(tdict, key, clock)
       IN  tdict' = IF ~ck.ok THEN DictCalled(tdict, "get", key, ck)
                    ELSE IF key \in DOMAIN ck.val.items
                    THEN DictCalled(ck.val, "get", key, Ret(Some(ck.val.items[key])))
                    ELSE DictCalled([ck.val EXCEPT !.setAt = MapDel(@, key)], "get", key, Ret(None))
    /\ UNCHANGED <<genVars, hcalls, cache, mig, pcalls, sfgen, thr>>

\* TimedDict.__setitem__(key, value)
DictSetItem(key, value) ==
    /\ tdict.kind = "TimedDict"
    /\ tdict.calls < MaxDictCalls
    /\ tdict' = DictCalled([tdict EXCEPT !.expires = IntOf(clock + tdict.ttl),
                                         !.items = MapSet(@, key, value),
                                         !.setAt = MapSet(@, key, [at |-> clock, val |-> value])],
                           "setitem", key, Ret(None))
    /\ UNCHANGED <<genVars, hcalls, cache, mig, pcalls, sfgen, thr>>

DictKeys == {"a", "b"}
DictValues == {1, 2}
DictTtls == {0, 1}

InitDict ==
    /\ InitSiqGen({1}, {0}, ModelPids, {"example.com"}, {None}, {Some(256)}, {ToBig[0]})
    /\ cache = NoCache
    /\ mig = NoMig
    /\ pcalls = <<>>
    /\ sfgen = NoSf
    /\ thr = NoThr
    /\ \E ttl \in DictTtls : tdict = TimedDictInit(ttl)

NextDict ==
    \/ Tick
    \/ \E k \in DictKeys : DictGetItem(k)
    \/ \E k \in DictKeys : DictGet(k)
    \/ \E k \in DictKeys, v \in DictValues : DictSetItem(k, v)

SpecDict == InitDict /\ [][NextDict]_vars

\* C21: a read of a key that was set T seconds ago or less returns the value
\* set; a read made later finds the key absent (KeyError or None) and leaves
\* it removed; the set of another key in between changes neither.
C21_Expiry ==
    LET c == tdict.lastCall
    IN  (c.op \in {"getitem", "get"} /\ c.had # None) =>
            IF c.at <= c.had[1].at + tdict.ttl
            THEN c.out = Ret(Some(c.had[1].val))
            ELSE /\ c.out = (IF c.op = "get" THEN Ret(None) ELSE Raise("KeyError"))
                 /\ ~c.present

-----------------------------------------------------------------------------
(* The reference timestamp of a generator (Spec) *)

\* C22: once a call of generate() has yielded, last_gen_ts of the generator is
\* the timestamp field of the identifier yielded last: a call that reads a
\* tick later than last_gen_ts adopts it as last_gen_ts.
C22_RefTracking ==
    (last.g \in Insts /\ iter[last.g].pc \in {"none", "loop"}) =>
        gen[last.g].last_gen_ts = SiqTs(last.siq)

-----------------------------------------------------------------------------
(* Two threads iterate generate() on one SiqGen (instance 1).  A thread can be
   switched out between any two statements, so generate() advances one
   statement group at a time; `with Lock():` makes a new threading.Lock and
   acquires it, and releases it at the end of the block. *)

Threads == {1, 2}

NoThrIter == [pc |-> "none", typ |-> "", n |-> 0, now |-> 0, idseq |-> 0, lock |-> 0]

\* the threads, none with an iterator, and the number of Lock objects made
ThreadsInit == [kind |-> "threads", it |-> [th \in Threads |-> NoThrIter], nlocks |-> 0]

\* thread th calls generate(typ, n): the iterator is created
ThrGenerate(th, typ, n) ==
    /\ thr.kind = "threads"
    /\ thr.it[th].pc = "none"
    /\ thr' = [thr EXCEPT !.it[th] = [NoThrIter EXCEPT !.pc = "created", !.typ = typ, !.n = n]]
    /\ UNCHANGED <<genVars, hcalls, cache, mig, pcalls, tdict, sfgen>>

\* generate() up to the loop, in thread th; time.sleep has returned at its end
ThrStart(th) ==
    /\ thr.kind = "threads"
    /\ thr.it[th].pc = "created"
    /\ LET now == cur_timestamp(1, clock)
       IN  /\ thr' = [thr EXCEPT !.it[th].now = now, !.it[th].pc = "loop"]
           /\ gen' = IF NewTick(now, gen[1].last_gen_ts)
                     THEN [gen EXCEPT ![1].counters = SetCounter(@, thr.it[th].typ, 0)]
                     ELSE gen
    /\ UNCHANGED <<clockVars, pid, iter, histVars, restarts, resumed, hcalls, cache, mig, pcalls,
                   tdict, sfgen>>

\* while n: idseq = typ.prepend(self.counters.setdefault(typ, 0)) and the test for overflow
ThrLoop(th) ==
    /\ thr.kind = "threads"
    /\ thr.it[th].pc = "loop"
    /\ thr.it[th].n # 0
    /\ LET typ   == thr.it[th].typ
           c     == SetDefault(gen[1].counters, typ)
           idseq == prepend(typ, c[typ])
       IN  /\ gen' = [gen EXCEPT ![1].counters = c]
           /\ thr' = [thr EXCEPT !.it[th].idseq = idseq,
                                 !.it[th].pc = IF idseq >= Shl(1, 16) THEN "spin" ELSE "lock"]
    /\ UNCHANGED <<clockVars, pid, iter, histVars, restarts, resumed, hcalls, cache, mig, pcalls,
                   tdict, sfgen>>

\* one pass of the wait after a counter overflow
ThrSpin(th) ==
    /\ thr.kind = "threads"
    /\ thr.it[th].pc = "spin"
    /\ LET now == cur_timestamp(1, clock)
       IN  thr' = [thr EXCEPT !.it[th].now = now,
                              !.it[th].pc = IF SpinOver(now, gen[1].last_gen_ts)
                                            THEN "lock_reduce" ELSE "spin"]
    /\ UNCHANGED <<genVars, hcalls, cache, mig, pcalls, tdict, sfgen>>

\* a lock is held by the thread whose iterator names it
Held(l) == \E th \in Threads : thr.it[th].lock = l

\* with Lock(): a new lock is made and acquired; a lock that is held cannot be acquired
ThrAcquire(th) ==
    /\ thr.kind = "threads"
    /\ thr.it[th].pc \in {"lock", "lock_reduce"}
    /\ LET l == thr.nlocks + 1
       IN  /\ ~Held(l)
           /\ thr' = [thr EXCEPT !.nlocks = l, !.it[th].lock = l,
                                 !.it[th].pc = IF thr.it[th].pc = "lock" THEN "section" ELSE "reduce"]
    /\ UNCHANGED <<genVars, hcalls, cache, mig, pcalls, tdict, sfgen>>

\* the guarded counter reduction: self.counters[typ] %= 1 << (16 - typ.n_bits)
ThrReduce(th) ==
    /\ thr.kind = "threads"
    /\ thr.it[th].pc = "reduce"
    /\ LET typ == thr.it[th].typ
       IN  gen' = [gen EXCEPT ![1].counters = SetCounter(@, typ, @[typ] % CounterSpace(typ))]
    /\ thr' = [thr EXCEPT !.it[th].lock = 0, !.it[th].pc = "lock"]
    /\ UNCHANGED <<clockVars, pid, iter, histVars, restarts, resumed, hcalls, cache, mig, pcalls,
                   tdict, sfgen>>

\* the guarded section: the identifier is assembled, n and counters[typ] are
\* stepped, the lock is released and the identifier is yielded
ThrSection(th) ==
    /\ thr.kind = "threads"
    /\ thr.it[th].pc = "section"
    /\ LET typ == thr.it[th].typ
       IN  gen' = [gen EXCEPT ![1].counters = SetCounter(@, typ, @[typ] + 1)]
    /\ thr' = [thr EXCEPT !.it[th].lock = 0, !.it[th].n = @ - 1, !.it[th].pc = "loop"]
    /\ UNCHANGED <<clockVars, pid, iter, histVars, restarts, resumed, hcalls, cache, mig, pcalls,
                   tdict, sfgen>>

\* the loop ends: the iterator of thread th is exhausted
ThrStop(th) ==
    /\ thr.kind = "threads"
    /\ thr.it[th].pc = "loop"
    /\ thr.it[th].n = 0
    /\ thr' = [thr EXCEPT !.it[th] = NoThrIter]
    /\ UNCHANGED <<genVars, hcalls, cache, mig, pcalls, tdict, sfgen>>

MaxThrCalls == 2

\* the generator was built at tick 1 from an identifier of tick 1 and has
\* yielded all USER identifiers of that tick but one
UsedGen(g) == [g EXCEPT !.counters = SetCounter(@, "USER", CounterSpace("USER") - 1)]

\* instance 1 in that state, no iterator made yet
InitUsed ==
    /\ clock = 1
    /\ regressed = FALSE
    /\ skews = 0
    /\ pid \in ModelPids
    /\ gen = [g \in {1} |->
                 UsedGen(SiqGenInit(clock, pid, "example.com", EarlierSiq(1), None, Some(256)))]
    /\ resumed = [g \in {1} |-> 1]
    /\ iter = [g \in {1} |-> NoIter]
    /\ emitted = <<>>
    /\ yields = 0
    /\ last = NoLast
    /\ maxTs = [g \in {1} |-> [t \in Tags |-> -1]]
    /\ firstOf = [g \in {1} |-> [t \in Tags |-> NoFirst]]
    /\ restarts = 0
    /\ hcalls = <<>>
    /\ cache = NoCache
    /\ mig = NoMig
    /\ pcalls = <<>>
    /\ tdict = NoDict
    /\ sfgen = NoSf

InitThreads == InitUsed /\ thr = ThreadsInit

NextThreads ==
    \/ Tick
    \/ \E th \in Threads, n \in 1..MaxThrCalls : thr.nlocks < 2 * MaxThrCalls /\ ThrGenerate(th, "USER", n)
    \/ \E th \in Threads : ThrStart(th)
    \/ \E th \in Threads : ThrLoop(th)
    \/ \E th \in Threads : ThrSpin(th)
    \/ \E th \in Threads : ThrAcquire(th)
    \/ \E th \in Threads : ThrReduce(th)
    \/ \E th \in Threads : ThrSection(th)
    \/ \E th \in Threads : ThrStop(th)

SpecThreads == InitThreads /\ [][NextThreads]_vars

\* thread th is inside a section guarded by `with Lock():`
InGuarded(th) == thr.it[th].pc \in {"section", "reduce"}

\* C23: at most one thread at a time is inside a lock-guarded section of
\* generate() on one instance.
C23_Mutex ==
    thr.kind = "threads" =>
        \A a, b \in Threads : (a # b /\ InGuarded(a)) => ~InGuarded(b)

-----------------------------------------------------------------------------
(* One generator that has yielded all USER identifiers of its tick but one,
   asked for up to MaxLazy identifiers at a time, of either tag, under a wall
   clock that ticks on *)

MaxLazy == 2
MaxLazyEmit == 4
LazyTags == {"CONTENT", "USER"}

InitLazy == InitUsed /\ thr = NoThr

NextLazy ==
    \/ Tick
    \/ \E typ \in LazyTags, n \in 0..MaxLazy : Owed + n <= MaxLazyEmit /\ generate(1, typ, n)
    \/ Start(1, clock)
    \/ Step(1)
    \/ Spin(1, clock)
    \/ StopIteration(1)

SpecLazy == InitLazy /\ [][NextLazy]_vars

\* a step in which instance g yields: n counts it, counters[typ] goes up by
\* one (from its value after the reduction, when there is one), and nothing
\* else of the generator changes
YieldStep(g) ==
    LET typ == iter[g].typ
        old == GetDefault(gen[g].counters, typ)
    IN  /\ iter[g].n > 0
        /\ iter'[g].n = iter[g].n - 1
        /\ gen'[g].counters[typ] \in {old + 1, (old % CounterSpace(typ)) + 1}
        /\ \A t \in DOMAIN gen[g].counters \ {typ} : gen'[g].counters[t] = gen[g].counters[t]
        /\ DOMAIN gen'[g].counters = DOMAIN gen[g].counters \cup {typ}
        /\ gen'[g].shard_id = gen[g].shard_id
        /\ gen'[g].domain_hash = gen[g].domain_hash

-----------------------------------------------------------------------------
(* SiqType.prepend called twice, with counters inside the counter space of
   the tag *)

PairCounters == {0, 1, 2, 2047, 4095, 8191}

\* the second call of prepend
PrependSecond(typ, counter) ==
    /\ Len(pcalls) = 1
    /\ pcalls[1].op = "prepend"
    /\ pcalls' = Append(pcalls, [op |-> "prepend", typ |-> typ, counter |-> counter,
                                 n_bits |-> n_bits(typ), out |-> prepend(typ, counter)])
    /\ UNCHANGED <<genVars, hcalls, cache, mig, auxVars>>

InitTagPair == InitGen({1}, {1}, ModelPids, {"example.com"}, {None}, {Some(256)}, {ToBig[0]})

NextTagPair ==
    \E typ \in Tags, counter \in PairCounters :
        /\ counter < CounterSpace(typ)
        /\ PrependCall(typ, counter) \/ PrependSecond(typ, counter)

SpecTagPair == InitTagPair /\ [][NextTagPair]_vars

\* C25: two prepend values with counters inside the counter spaces of their
\* tags are equal only for the same tag and the same counter.
C25_Partition ==
    \A i, j \in 1..Len(pcalls) :
        (pcalls[i].typ # pcalls[j].typ \/ pcalls[i].counter # pcalls[j].counter)
            => pcalls[i].out # pcalls[j].out

\* CONTENT with counter 1 gives 15, MESSAGE with counter 0 gives 14
C25_Witness ==
    /\ Len(pcalls) = 2
    /\ pcalls[1].typ = "CONTENT" /\ pcalls[1].counter = 1 /\ pcalls[1].out = 15
    /\ pcalls[2].typ = "MESSAGE" /\ pcalls[2].counter = 0 /\ pcalls[2].out = 14

-----------------------------------------------------------------------------
(* The fields of the identifiers of one generator, built with an explicit
   shard_id, read back with the accessors of Siq.  The constructor call is
   kept in pcalls. *)

\* x % 0xffffffff on a big: 2^32 is 1 modulo 2^32 - 1
BigModOnes32[b \in Seq(Nat)] ==
    IF Len(b) <= 4 THEN (IF b = <<255, 255, 255, 255>> THEN <<>> ELSE b)
    ELSE BigModOnes32[BigAdd[BigMod8[b, 4], BigShr8[b, 4]]]

\* Siq.shard_id, Siq.domain_name and the integer part self >> 56 of Siq.timestamp
Siq_shard_id(siq) == FromBig[BigMod8[BigShr8[siq, 6], 1]]
Siq_domain_name(siq) == BigModOnes32[BigShr8[siq, 2]]
Siq_timestamp(siq) == BigShr8[siq, 7]

FieldShardIds == {0, 1, 256, 511}
FieldLocalIds == {None, Some(255)}
FieldDomains == {"example.com", "d9580021.example"}

InitFields ==
    /\ \E s \in FieldShardIds :
          /\ InitSiqGen({1}, {1}, ModelPids, FieldDomains, FieldLocalIds, {Some(s)}, {ToBig[0]})
          /\ pcalls = <<[op |-> "SiqGen", shard_id |-> s]>>
    /\ cache = NoCache
    /\ mig = NoMig
    /\ NoAux

NextFields ==
    \/ Tick
    \/ \E typ \in ModelTags : Owed + 1 <= MaxEmit /\ generate_one(1, typ)
    \/ Start(1, clock)
    \/ Step(1)
    \/ StopIteration(1)

SpecFields == InitFields /\ [][NextFields]_vars

\* C28: a generator built with the explicit shard_id s has s mod 256 as its
\* shard_id for its whole life, and its identifiers carry it in bits 48..55.
C28_ShardHonoured ==
    (Len(pcalls) = 1 /\ pcalls[1].op = "SiqGen") =>
        /\ gen[1].shard_id = pcalls[1].shard_id % 256
        /\ \A k \in 1..Len(emitted) : SiqShard(emitted[k].siq) = pcalls[1].shard_id % 256

\* C29: for an identifier yielded at tick t by a generator with shard id s and
\* domain hash h, shard_id() is s, domain_name() is h and self >> 56 is t.
C29_AccessorsInvert ==
    \A k \in 1..Len(emitted) :
        /\ Siq_shard_id(emitted[k].siq) = gen[emitted[k].g].shard_id
        /\ Siq_domain_name(emitted[k].siq) = gen[emitted[k].g].domain_hash
        /\ Siq_timestamp(emitted[k].siq) = ToBig[emitted[k].now]

-----------------------------------------------------------------------------
(* snowflake.SnowflakeGen.  cur_timestamp() is the wall clock in milliseconds
   since the epoch of the generator; the clock ticks on and is never set
   back. *)

NoSfIter == [pc |-> "none", n |-> 0, now |-> 0]

\* SnowflakeGen.cur_timestamp, c being what time.time() * 1000 reads
SfCurTimestamp(sf, c) == c - sf.epoch * 1000

\* SnowflakeGen.__init__; last_gen_ts is min(last_id >> 22, cur_timestamp())
SnowflakeGenInit(c, p, epoch, local_id, shard_id, last_id) ==
    [kind        |-> "SnowflakeGen",
     epoch       |-> epoch,
     local_id    |-> local_id,
     shard_id    |-> (IF Truthy(shard_id) THEN shard_id[1] ELSE p) % 32,
     counter     |-> 0,
     last_gen_ts |-> Min(Shr(last_id, 22), c - epoch * 1000),
     it          |-> NoSfIter,
     emitted     |-> <<>>,
     reduced     |-> -1]

\* the snowflake assembled in generate()
MakeSnowflakeId(now, local_id, shard_id, counter) ==
    Shl(now, 22) + Shl(local_id % 32, 17) + Shl(shard_id % 32, 12) + (counter % Shl(1, 12))

MaxSfEmit == 3

\* SnowflakeGen.generate(n): the iterator is created
SfGenerate(n) ==
    /\ sfgen.kind = "SnowflakeGen"
    /\ sfgen.it.pc = "none"
    /\ Len(sfgen.emitted) + n <= MaxSfEmit
    /\ sfgen' = [sfgen EXCEPT !.it = [pc |-> "created", n |-> n, now |-> 0]]
    /\ UNCHANGED <<genVars, hcalls, cache, mig, pcalls, tdict, thr>>

\* generate(), up to the loop: read the clock, sleep when it is behind
\* last_gen_ts, reset the counter on a later millisecond
SfStart ==
    /\ sfgen.kind = "SnowflakeGen"
    /\ sfgen.it.pc = "created"
    /\ LET now == SfCurTimestamp(sfgen, clock)
       IN  sfgen' = [sfgen EXCEPT !.it.now = now, !.it.pc = "loop",
                                  !.counter = IF now > sfgen.last_gen_ts THEN 0 ELSE @]
    /\ UNCHANGED <<genVars, hcalls, cache, mig, pcalls, tdict, thr>>

\* the guarded section of generate() and the yield
SfYield(sf, now) ==
    [sf EXCEPT !.it.now = now, !.it.n = @ - 1, !.it.pc = "loop",
               !.counter = @ + 1,
               !.emitted = Append(@, MakeSnowflakeId(now, sf.local_id, sf.shard_id, sf.counter))]

\* one pass of the loop with the counter below 4096: yields one snowflake; at
\* 4096 or above: goes waiting for the clock
SfStep ==
    /\ sfgen.kind = "SnowflakeGen"
    /\ sfgen.it.pc = "loop"
    /\ sfgen.it.n # 0
    /\ sfgen' = IF sfgen.counter >= 4096
                THEN [sfgen EXCEPT !.it.pc = "spin"]
                ELSE SfYield(sfgen, sfgen.it.now)
    /\ UNCHANGED <<genVars, hcalls, cache, mig, pcalls, tdict, thr>>

\* one pass of the wait at 4096: read the clock; stay, or reduce the counter
\* (self.counter %= 1 << 16) and yield
SfSpin ==
    /\ sfgen.kind = "SnowflakeGen"
    /\ sfgen.it.pc = "spin"
    /\ LET now == SfCurTimestamp(sfgen, clock)
           red == sfgen.counter % Shl(1, 16)
       IN  sfgen' = IF now <= sfgen.last_gen_ts
                    THEN [sfgen EXCEPT !.it.now = now]
                    ELSE SfYield([sfgen EXCEPT !.counter = red, !.reduced = red], now)
    /\ UNCHANGED <<genVars, hcalls, cache, mig, pcalls, tdict, thr>>

\* the loop ends: the iterator is exhausted
SfStop ==
    /\ sfgen.kind = "SnowflakeGen"
    /\ sfgen.it.pc = "loop"
    /\ sfgen.it.n = 0
    /\ sfgen' = [sfgen EXCEPT !.it = NoSfIter]
    /\ UNCHANGED <<genVars, hcalls, cache, mig, pcalls, tdict, thr>>

\* an id yielded in millisecond ts by an earlier process
EarlierSnowflake(ts) == MakeSnowflakeId(ts, 0, 1, 0)

\* a generator resumed from an id of the millisecond of its construction
\* that has yielded all counter values of that millisecond but one
UsedSnowflakeGen(sf) == [sf EXCEPT !.counter = 4095]

SfSizes == {1, 2}

InitSnow ==
    /\ InitSiqGen({1}, {1}, ModelPids, {"example.com"}, {None}, {Some(256)}, {ToBig[0]})
    /\ cache = NoCache
    /\ mig = NoMig
    /\ pcalls = <<>>
    /\ tdict = NoDict
    /\ thr = NoThr
    /\ sfgen \in {SnowflakeGenInit(clock, pid, 0, 0, Some(1), 0),
                  UsedSnowflakeGen(SnowflakeGenInit(clock, pid, 0, 0, Some(1), EarlierSnowflake(1)))}

NextSnow ==
    \/ Tick
    \/ \E n \in SfSizes : SfGenerate(n)
    \/ SfStart
    \/ SfStep
    \/ SfSpin
    \/ SfStop

SpecSnow == InitSnow /\ [][NextSnow]_vars

\* C30: no two snowflakes yielded by one SnowflakeGen are equal, and the
\* counter is below 4096 after the overflow handling.
C30_SnowflakeUnique ==
    sfgen.kind = "SnowflakeGen" =>
        /\ \A i, j \in 1..Len(sfgen.emitted) : i # j => sfgen.emitted[i] # sfgen.emitted[j]
        /\ sfgen.reduced < 4096

====
